---- MODULE Spec2Model ----
(***************************************************************************)
(* The log collector of gonder (pkg/collector/collector.go): the Start and *)
(* Stop lifecycle calls, one collectFromSource goroutine per started       *)
(* source, and the files those goroutines tail.                            *)
(*                                                                         *)
(* src/pkg/collector/collector.go holds two copies of the package, one     *)
(* after the other (lines 1-450 and 452-918).  Start, Stop and the loop of *)
(* collectFromSource are the same in both; the cycle of collectFromSource  *)
(* differs.  version says which copy runs: Spec is the first, Spec2 the    *)
(* second.  SpecBoth is either.                                            *)
(*                                                                         *)
(* A line is the sequence of its bytes.  parseLogLine is computed as the   *)
(* code computes it: the three patterns of initDefaultParsers are matched  *)
(* the way Go's regexp matches them, and detectLogLevel looks for its      *)
(* keywords in the lower-cased message.  ParseSpec and ParseSpec2 run the  *)
(* body of the scanner loop (parseLogLine, then processSystemLog) of the   *)
(* first and of the second copy on one line and one source configuration,  *)
(* drawn from Lines and Configs.                                           *)
(*                                                                         *)
(* lc.running is a plain bool that Start/Stop write and every goroutine    *)
(* reads without synchronisation.  A goroutine reads it once per loop      *)
(* iteration, after a channel receive; a read that is late by a bounded    *)
(* delay is the same behaviour as the read taken earlier in the            *)
(* interleaving, so the read is modelled as an atomic read of the flag and *)
(* every interleaving of it with Start and Stop is explored.               *)
(***************************************************************************)
EXTENDS Integers, Sequences, FiniteSets, TLC

\* ------------------------------------------------------------------ bounds
MaxSources == 3   \* the model runs the first MaxSources built-in sources
MaxEnvSteps == 3  \* Start()/Stop() calls, file operations of the logging
                  \* processes and injected failures, all together
MaxFileLen == 3   \* bytes in one file
MaxBuilt == 3     \* lines LoopSpec runs the loop body on, one after another
MaxRequests == 2  \* HTTP requests to the lifecycle handlers, served concurrently

\* --------------------------------------------------------------- constants
NoFile == 0       \* no inode at a path / no open file held by a goroutine

LF == "\n"
CR == "\r"

\* what one write of a logging process appends: a whole line, the newline that
\* ends a line (or makes an empty line), a line of white space and the start of
\* the next line, or a whole line and the start of the next
Chunks == { <<"a", LF>>, <<LF>>, <<" ", LF, "a">>, <<"a", LF, "a">> }

\* ------------------------------------------------------------ the registry
DefaultSources ==
  << [Name |-> "test_syslog",     Source |-> "syslog", Path |-> "test_logs/syslog",
      Enabled |-> TRUE,  Tags |-> <<"system", "syslog", "test">>,   Interval |-> 3],
     [Name |-> "test_auth",       Source |-> "syslog", Path |-> "test_logs/auth.log",
      Enabled |-> TRUE,  Tags |-> <<"security", "auth", "test">>,   Interval |-> 3],
     [Name |-> "system_syslog",   Source |-> "syslog", Path |-> "/var/log/syslog",
      Enabled |-> FALSE, Tags |-> <<"system", "syslog">>,           Interval |-> 5],
     [Name |-> "system_messages", Source |-> "syslog", Path |-> "/var/log/messages",
      Enabled |-> FALSE, Tags |-> <<"system", "messages">>,         Interval |-> 5],
     [Name |-> "nginx_access",    Source |-> "nginx",  Path |-> "/var/log/nginx/access.log",
      Enabled |-> FALSE, Tags |-> <<"web", "nginx", "access">>,     Interval |-> 5],
     [Name |-> "auth_log",        Source |-> "syslog", Path |-> "/var/log/auth.log",
      Enabled |-> FALSE, Tags |-> <<"security", "auth">>,           Interval |-> 5] >>

Min(a, b) == IF a < b THEN a ELSE b

\* lc.sources, cut to the first MaxSources entries
sources == SubSeq(DefaultSources, 1, Min(MaxSources, Len(DefaultSources)))

SourceIds == 1..Len(sources)

Paths == { sources[s].Path : s \in SourceIds }

VARIABLES
  version,    \* which of the two copies of collector.go is built: 1 or 2
  running,    \* lc.running
  tasks,      \* the collectFromSource goroutines ever started, in start order
  emitted,    \* emitted[t]: the records goroutine t handed to processSystemLog,
              \* each with whether processSystemLog printed it
  events,     \* what the audit logger wrote, in order
  ncalls,     \* calls of Start(), Stop() and GetSources() made so far
  lastCall,   \* the last lifecycle call and what it returned
  dir,        \* the file system: path -> inode (NoFile when absent)
  inodes,     \* inode -> [data: its bytes, gen: how often it was truncated]
  fileOps,    \* file operations made so far by the logging processes
  faults,     \* failures injected so far
  input,      \* the line and the source configuration given to the loop body
  built,      \* what the loop body made of input, and how far it has got
  clock,      \* the wall clock: the place in Instants of its last reading
  made,       \* what the loop body built of the lines before input
  registry,   \* lc.sources
  held,       \* a caller holds the slice GetSources() returned
  reqs        \* the HTTP requests to the lifecycle handlers, and how far each got

\* the state of the loop body run on its own
builder == <<input, built, clock, made>>

\* the state the callers of the package see or hold
callers == <<registry, held, reqs>>

vars == <<version, running, tasks, emitted, events, ncalls, lastCall,
          dir, inodes, fileOps, faults, builder, callers>>

TaskIds == 1..Len(tasks)

\* what the environment has done so far
EnvSteps == ncalls + fileOps + faults

\* ------------------------------------------------------------ pure helpers

\* strings.TrimSpace(line) == ""
IsBlank(line) == \A i \in 1..Len(line) : line[i] \in {" ", "\t", CR, LF}

\* bufio.ScanLines' dropCR
dropCR(tok) ==
  IF Len(tok) > 0 /\ tok[Len(tok)] = CR THEN SubSeq(tok, 1, Len(tok) - 1) ELSE tok

\* The tokens bufio.Scanner (ScanLines) delivers for the bytes data[from+1..upto]:
\* one per newline-terminated line, plus the unterminated rest when it is not
\* empty.  off is the offset in the file of the token's first byte.
RECURSIVE ScanFrom(_, _, _, _)
ScanFrom(data, start, pos, upto) ==
  IF pos >= upto
    THEN IF start < upto
           THEN << [off |-> start, text |-> dropCR(SubSeq(data, start + 1, upto))] >>
           ELSE << >>
    ELSE IF data[pos + 1] = LF
           THEN << [off |-> start, text |-> dropCR(SubSeq(data, start + 1, pos))] >>
                  \o ScanFrom(data, pos + 1, pos + 1, upto)
           ELSE ScanFrom(data, start, pos + 1, upto)

ScanTokens(data, from, upto) == ScanFrom(data, from, from, upto)

\* ------------------------------------------------------------------ strings
\* A Go string is the sequence of its bytes, one-character strings here.

UpperCase ==
  <<"A", "B", "C", "D", "E", "F", "G", "H", "I", "J", "K", "L", "M", "N",
  "O", "P", "Q", "R", "S", "T", "U", "V", "W", "X", "Y", "Z">>

LowerCase ==
  <<"a", "b", "c", "d", "e", "f", "g", "h", "i", "j", "k", "l", "m", "n",
  "o", "p", "q", "r", "s", "t", "u", "v", "w", "x", "y", "z">>

Digits == <<"0", "1", "2", "3", "4", "5", "6", "7", "8", "9">>

\* the bytes the regexp classes \w and \s stand for
WordBytes ==
  {UpperCase[i] : i \in 1..Len(UpperCase)} \cup {LowerCase[i] : i \in 1..Len(LowerCase)}
    \cup {Digits[i] : i \in 1..Len(Digits)} \cup {"_"}

SpaceBytes == {" ", "\t", "\n", "\f", "\r"}

\* strings.ToLower
ToLower(s) ==
  [i \in 1..Len(s) |->
     IF \E j \in 1..Len(UpperCase) : UpperCase[j] = s[i]
       THEN LowerCase[CHOOSE j \in 1..Len(UpperCase) : UpperCase[j] = s[i]]
       ELSE s[i]]

\* strings.Contains
Contains(s, substr) ==
  \E i \in 0..(Len(s) - Len(substr)) : SubSeq(s, i + 1, i + Len(substr)) = substr

\* ------------------------------------------------------------------- time
\* A time.Time is its date and its clock as time.Date takes them, in its own
\* zone, and the offset of that zone east of UTC in seconds.  The process runs
\* in UTC: time.Local is UTC.

Time(year, month, day, hour, min, sec, nsec, off) ==
  [year |-> year, month |-> month, day |-> day, hour |-> hour, min |-> min,
   sec |-> sec, nsec |-> nsec, off |-> off]

\* time.Time{}
ZeroTime == Time(1, 1, 1, 0, 0, 0, 0, 0)

daysIn(month, year) ==
  LET isLeap == year % 4 = 0 /\ (year % 100 # 0 \/ year % 400 = 0)
  IN IF month = 2 THEN (IF isLeap THEN 29 ELSE 28)
     ELSE IF month \in {4, 6, 9, 11} THEN 30 ELSE 31

\* t.Unix(), for a time of 1970 or later
Unix(t) ==
  LET y        == t.year
      toYear   == 365 * (y - 1970) + ((y - 1969) \div 4) - ((y - 1901) \div 100)
                    + ((y - 1601) \div 400)
      toMonth  == <<0, 31, 59, 90, 120, 151, 181, 212, 243, 273, 304, 334>>[t.month]
                    + (IF t.month > 2 /\ daysIn(2, y) = 29 THEN 1 ELSE 0)
  IN (toYear + toMonth + t.day - 1) * 86400
       + t.hour * 3600 + t.min * 60 + t.sec - t.off

\* t.AddDate(years, 0, 0): time.Date normalises a day the month does not have
AddYears(t, years) ==
  IF t.day > daysIn(t.month, t.year + years)
    THEN [t EXCEPT !.year = @ + years, !.month = @ + 1,
                   !.day = @ - daysIn(t.month, t.year + years)]
    ELSE [t EXCEPT !.year = @ + years]

\* fmt's %d for n >= 0
RECURSIVE Itoa(_)
Itoa(n) ==
  IF n < 10 THEN << Digits[n + 1] >>
  ELSE Append(Itoa(n \div 10), Digits[(n % 10) + 1])

\* fmt's %0<width>d, from the digits %d gives
RECURSIVE ZeroPad(_, _)
ZeroPad(digits, width) ==
  IF Len(digits) >= width THEN digits ELSE ZeroPad(<<"0">> \o digits, width)

\* ------------------------------------------------------------- time.Parse
\* A layout is the sequence of its chunks, as nextStdChunk cuts them: text to
\* be found as it stands, and the standard chunks ("Jan", "2", "15", ...).
\* n is the number of digits of a chunk ".000".

Text(text) == [std |-> "text", text |-> text, n |-> 0]
Std(name) == [std |-> name, text |-> << >>, n |-> 0]

DigitBytes == {Digits[i] : i \in 1..Len(Digits)}

\* the number a digit stands for
DigitVal(c) == (CHOOSE i \in 1..Len(Digits) : Digits[i] = c) - 1

\* s[i] is there and is a digit (i counts from 0)
isDigit(s, i) == i < Len(s) /\ s[i + 1] \in DigitBytes

Drop(s, n) == SubSeq(s, n + 1, Len(s))

\* how many bytes of s from index i on (i counts from 0) are in set, in a row
Run(s, i, set) ==
  IF i >= Len(s) THEN 0
  ELSE LET stops == { k \in i..Len(s) : k = Len(s) \/ s[k + 1] \notin set }
       IN (CHOOSE k \in stops : \A j \in stops : k <= j) - i

\* the number the digits of s stand for
RECURSIVE DigitsVal(_)
DigitsVal(s) ==
  IF s = << >> THEN 0
  ELSE 10 * DigitsVal(SubSeq(s, 1, Len(s) - 1)) + DigitVal(s[Len(s)])

\* atoi: an optional sign and digits only
atoi(s) ==
  LET signed == s # << >> /\ s[1] \in {"-", "+"}
      body   == IF signed THEN Tail(s) ELSE s
  IN IF \E i \in 1..Len(body) : body[i] \notin DigitBytes
       THEN [err |-> TRUE, n |-> 0]
       ELSE [err |-> FALSE,
             n |-> IF signed /\ s[1] = "-" THEN 0 - DigitsVal(body) ELSE DigitsVal(body)]

\* getnum: one or two digits, two when fixed
getnum(s, fixed) ==
  IF ~isDigit(s, 0) THEN [err |-> TRUE, n |-> 0, rest |-> s]
  ELSE IF ~isDigit(s, 1)
    THEN IF fixed THEN [err |-> TRUE, n |-> 0, rest |-> s]
         ELSE [err |-> FALSE, n |-> DigitVal(s[1]), rest |-> Tail(s)]
  ELSE [err |-> FALSE, n |-> DigitVal(s[1]) * 10 + DigitVal(s[2]), rest |-> Drop(s, 2)]

\* skip: value without the text prefix; a space of prefix stands for any
\* number of spaces
RECURSIVE skip(_, _)
skip(value, prefix) ==
  IF prefix = << >> THEN [err |-> FALSE, rest |-> value]
  ELSE IF prefix[1] = " "
    THEN IF value # << >> /\ value[1] # " " THEN [err |-> TRUE, rest |-> value]
         ELSE skip(Drop(value, Run(value, 0, {" "})), Drop(prefix, Run(prefix, 0, {" "})))
  ELSE IF value = << >> \/ value[1] # prefix[1] THEN [err |-> TRUE, rest |-> value]
  ELSE skip(Tail(value), Tail(prefix))

shortMonthNames ==
  << <<"J", "a", "n">>, <<"F", "e", "b">>, <<"M", "a", "r">>, <<"A", "p", "r">>,
     <<"M", "a", "y">>, <<"J", "u", "n">>, <<"J", "u", "l">>, <<"A", "u", "g">>,
     <<"S", "e", "p">>, <<"O", "c", "t">>, <<"N", "o", "v">>, <<"D", "e", "c">> >>

\* lookup: the first name of tab value begins with, whatever the case
lookup(tab, value) ==
  LET hits == { i \in 1..Len(tab) :
                  /\ Len(value) >= Len(tab[i])
                  /\ ToLower(SubSeq(value, 1, Len(tab[i]))) = ToLower(tab[i]) }
  IN IF hits = {} THEN [err |-> TRUE, n |-> 0, rest |-> value]
     ELSE LET i == CHOOSE i \in hits : \A j \in hits : i <= j
          IN [err |-> FALSE, n |-> i, rest |-> Drop(value, Len(tab[i]))]

\* parseNanoseconds: the first nbytes of value are a period or a comma and the
\* digits of a fraction of a second, of which nine count
parseNanoseconds(value, nbytes) ==
  IF value[1] \notin {".", ","} THEN [err |-> TRUE, n |-> 0]
  ELSE LET nb    == Min(nbytes, 10)
           ns    == atoi(SubSeq(value, 2, nb))
           scale == <<1, 10, 100, 1000, 10000, 100000, 1000000, 10000000,
                      100000000>>[11 - nb]
       IN IF ns.err \/ ns.n < 0 THEN [err |-> TRUE, n |-> 0]
          ELSE [err |-> FALSE, n |-> ns.n * scale]

\* parseTimeZone: the length of the zone abbreviation value begins with
parseTimeZone(value) ==
  LET \* parseSignedOffset: a sign and an hour of at most 23, 0 when absent
      signedOffset(v) ==
        IF v = << >> \/ v[1] \notin {"-", "+"} THEN 0
        ELSE IF Run(v, 1, DigitBytes) = 0 THEN 0
        ELSE IF DigitsVal(SubSeq(v, 2, 1 + Run(v, 1, DigitBytes))) > 23 THEN 0
        ELSE 1 + Run(v, 1, DigitBytes)
      nUpper == Min(6, Run(value, 0, {UpperCase[i] : i \in 1..Len(UpperCase)}))
  IN IF Len(value) < 3 THEN [ok |-> FALSE, n |-> 0]
     ELSE IF /\ Len(value) >= 4
             /\ SubSeq(value, 1, 4) \in {<<"C", "h", "S", "T">>, <<"M", "e", "S", "T">>}
       THEN [ok |-> TRUE, n |-> 4]
     ELSE IF SubSeq(value, 1, 3) = <<"G", "M", "T">>
       THEN [ok |-> TRUE, n |-> 3 + signedOffset(Drop(value, 3))]
     ELSE IF value[1] \in {"+", "-"}
       THEN [ok |-> signedOffset(value) > 0, n |-> signedOffset(value)]
     ELSE IF nUpper = 5 /\ value[5] = "T" THEN [ok |-> TRUE, n |-> 5]
     ELSE IF nUpper = 4 /\ (value[4] = "T" \/ SubSeq(value, 1, 4) = <<"W", "I", "T", "A">>)
       THEN [ok |-> TRUE, n |-> 4]
     ELSE IF nUpper = 3 THEN [ok |-> TRUE, n |-> 3]
     ELSE [ok |-> FALSE, n |-> 0]

\* One turn of the loop of parse: the chunk item of the layout, with the
\* chunks after it.  st is what parse has found so far; st.value is the text
\* still to be parsed.
ParseChunk(item, after, st) ==
  LET value == st.value
      bad   == [st EXCEPT !.err = TRUE]
      \* the standard chunk that comes next in the layout, "" when none does
      stds    == SelectSeq(after, LAMBDA it : it.std # "text")
      nextStd == IF stds = << >> THEN "" ELSE stds[1].std
      \* a numeric zone: its sign, hour hh and minute mm, followed by rest
      numTZ(sign, hh, mm, rest) ==
        LET hr == getnum(hh, TRUE)
            mi == getnum(mm, TRUE)
        IN IF hr.err \/ mi.err \/ hr.n > 24 \/ mi.n > 60 \/ sign \notin {"+", "-"}
             THEN bad
             ELSE [st EXCEPT !.value = rest,
                             !.zoneOffset = IF sign = "-" THEN 0 - (hr.n * 60 + mi.n) * 60
                                                          ELSE (hr.n * 60 + mi.n) * 60]
  IN CASE item.std = "text" ->
            LET r == skip(value, item.text)
            IN IF r.err THEN bad ELSE [st EXCEPT !.value = r.rest]
       [] item.std = "stdYear" ->
            IF Len(value) < 2 THEN bad
            ELSE LET y == atoi(SubSeq(value, 1, 2))
                 IN IF y.err THEN bad
                    ELSE [st EXCEPT !.value = Drop(value, 2),
                                    !.year = IF y.n >= 69 THEN y.n + 1900 ELSE y.n + 2000]
       [] item.std = "stdLongYear" ->
            IF Len(value) < 4 \/ ~isDigit(value, 0) THEN bad
            ELSE LET y == atoi(SubSeq(value, 1, 4))
                 IN IF y.err THEN bad
                    ELSE [st EXCEPT !.value = Drop(value, 4), !.year = y.n]
       [] item.std = "stdMonth" ->
            LET m == lookup(shortMonthNames, value)
            IN IF m.err THEN bad ELSE [st EXCEPT !.value = m.rest, !.month = m.n]
       [] item.std = "stdZeroMonth" ->
            LET m == getnum(value, TRUE)
            IN IF m.err \/ m.n <= 0 \/ 12 < m.n THEN bad
               ELSE [st EXCEPT !.value = m.rest, !.month = m.n]
       [] item.std \in {"stdDay", "stdZeroDay"} ->
            LET d == getnum(value, item.std = "stdZeroDay")
            IN IF d.err THEN bad ELSE [st EXCEPT !.value = d.rest, !.day = d.n]
       [] item.std = "stdHour" ->
            LET h == getnum(value, FALSE)
            IN IF h.err \/ 24 <= h.n THEN bad
               ELSE [st EXCEPT !.value = h.rest, !.hour = h.n]
       [] item.std = "stdZeroMinute" ->
            LET m == getnum(value, TRUE)
            IN IF m.err \/ 60 <= m.n THEN bad
               ELSE [st EXCEPT !.value = m.rest, !.min = m.n]
       [] item.std = "stdZeroSecond" ->
            LET s == getnum(value, TRUE)
            IN IF s.err \/ 60 <= s.n THEN bad
               ELSE IF /\ Len(s.rest) >= 2 /\ s.rest[1] \in {".", ","} /\ isDigit(s.rest, 1)
                       /\ nextStd \notin {"stdFracSecond0", "stdFracSecond9"}
                 THEN \* a fraction in the text that the layout does not have
                      LET n  == 1 + Run(s.rest, 1, DigitBytes)
                          ns == parseNanoseconds(s.rest, n)
                      IN IF ns.err THEN bad
                         ELSE [st EXCEPT !.value = Drop(s.rest, n), !.sec = s.n,
                                         !.nsec = ns.n]
               ELSE [st EXCEPT !.value = s.rest, !.sec = s.n]
       [] item.std = "stdFracSecond0" ->
            IF Len(value) < 1 + item.n THEN bad
            ELSE LET ns == parseNanoseconds(value, 1 + item.n)
                 IN IF ns.err THEN bad
                    ELSE [st EXCEPT !.value = Drop(value, 1 + item.n), !.nsec = ns.n]
       [] item.std = "stdFracSecond9" ->
            IF Len(value) < 2 \/ value[1] \notin {".", ","} \/ ~isDigit(value, 1) THEN st
            ELSE LET n  == 1 + Run(value, 1, DigitBytes)
                     ns == parseNanoseconds(value, n)
                 IN IF ns.err THEN bad
                    ELSE [st EXCEPT !.value = Drop(value, n), !.nsec = ns.n]
       [] item.std = "stdISO8601ColonTZ" ->
            IF Len(value) >= 1 /\ value[1] = "Z"
              THEN [st EXCEPT !.value = Tail(value), !.z = "UTC"]
            ELSE IF Len(value) < 6 THEN bad
            ELSE IF value[4] # ":" THEN bad
            ELSE numTZ(value[1], SubSeq(value, 2, 3), SubSeq(value, 5, 6), Drop(value, 6))
       [] item.std = "stdNumTZ" ->
            IF Len(value) < 5 THEN bad
            ELSE numTZ(value[1], SubSeq(value, 2, 3), SubSeq(value, 4, 5), Drop(value, 5))
       [] item.std = "stdTZ" ->
            IF Len(value) >= 3 /\ SubSeq(value, 1, 3) = <<"U", "T", "C">>
              THEN [st EXCEPT !.value = Drop(value, 3), !.z = "UTC"]
            ELSE LET tz == parseTimeZone(value)
                 IN IF ~tz.ok THEN bad
                    ELSE [st EXCEPT !.value = Drop(value, tz.n),
                                    !.zoneName = SubSeq(value, 1, tz.n)]

\* the loop of parse over the chunks of the layout; text left over at the end
\* is an error
RECURSIVE ParseChunks(_, _)
ParseChunks(items, st) ==
  IF st.err THEN st
  ELSE IF items = << >> THEN [st EXCEPT !.err = (st.value # << >>)]
  ELSE ParseChunks(Tail(items), ParseChunk(items[1], Tail(items), st))

\* t.setLoc(FixedZone(name, hours * 3600)) for a UTC time t: the same
\* instant, read in a zone that many hours east of UTC
InFixedZone(t, hours) ==
  LET h    == t.hour + hours
      next == IF t.day < daysIn(t.month, t.year) THEN [t EXCEPT !.day = @ + 1]
              ELSE IF t.month < 12 THEN [t EXCEPT !.month = @ + 1, !.day = 1]
              ELSE [t EXCEPT !.year = @ + 1, !.month = 1, !.day = 1]
      prev == IF t.day > 1 THEN [t EXCEPT !.day = @ - 1]
              ELSE IF t.month > 1
                THEN [t EXCEPT !.month = @ - 1, !.day = daysIn(t.month - 1, t.year)]
              ELSE [t EXCEPT !.year = @ - 1, !.month = 12, !.day = 31]
  IN IF h >= 24 THEN [next EXCEPT !.hour = h - 24, !.off = hours * 3600]
     ELSE IF h < 0 THEN [prev EXCEPT !.hour = h + 24, !.off = hours * 3600]
     ELSE [t EXCEPT !.hour = h, !.off = hours * 3600]

\* time.Parse(layout, value): the loop, the check of the day of the month and
\* the zone of the result (UTC when the text names none)
Parse(layout, value) ==
  LET \* what parse makes of the state st its loop ends in
      result(st) ==
        LET month == IF st.month < 0 THEN 1 ELSE st.month
            day   == IF st.day < 0 THEN 1 ELSE st.day
            utc   == Time(st.year, month, day, st.hour, st.min, st.sec, st.nsec, 0)
        IN IF st.err THEN [err |-> TRUE, t |-> ZeroTime]
           ELSE IF day < 1 \/ day > daysIn(month, st.year)
             THEN [err |-> TRUE, t |-> ZeroTime]
           ELSE IF st.z = "UTC" THEN [err |-> FALSE, t |-> utc]
           ELSE IF st.zoneOffset # -1
             THEN [err |-> FALSE, t |-> [utc EXCEPT !.off = st.zoneOffset]]
           ELSE IF Len(st.zoneName) > 3 /\ SubSeq(st.zoneName, 1, 3) = <<"G", "M", "T">>
             THEN [err |-> FALSE, t |-> InFixedZone(utc, atoi(Drop(st.zoneName, 3)).n)]
           ELSE [err |-> FALSE, t |-> utc]
  IN result(ParseChunks(layout,
              [value |-> value, year |-> 0, month |-> -1, day |-> -1, hour |-> 0,
               min |-> 0, sec |-> 0, nsec |-> 0, z |-> "", zoneOffset |-> -1,
               zoneName |-> << >>, err |-> FALSE]))

\* ------------------------------------------------------------ parseTimestamp

\* the chunks of "2006-01-02T15:04:05" and of "2006-01-02 15:04:05"
DateChunks(sep) ==
  << Std("stdLongYear"), Text(<<"-">>), Std("stdZeroMonth"), Text(<<"-">>),
     Std("stdZeroDay"), Text(<<sep>>), Std("stdHour"), Text(<<":">>),
     Std("stdZeroMinute"), Text(<<":">>), Std("stdZeroSecond") >>

\* the formats of parseTimestamp, first copy (lines 390-396)
formats ==
  << \* "Jan 2 15:04:05"
     << Std("stdMonth"), Text(<<" ">>), Std("stdDay"), Text(<<" ">>), Std("stdHour"),
        Text(<<":">>), Std("stdZeroMinute"), Text(<<":">>), Std("stdZeroSecond") >>,
     \* "2006-01-02T15:04:05.999999999Z07:00"
     DateChunks("T") \o << Std("stdFracSecond9"), Std("stdISO8601ColonTZ") >>,
     \* "2006-01-02T15:04:05Z": this Z is text, not a zone
     DateChunks("T") \o << Text(<<"Z">>) >>,
     \* "2006-01-02 15:04:05"
     DateChunks(" "),
     \* "02/Jan/2006:15:04:05 -0700"
     << Std("stdZeroDay"), Text(<<"/">>), Std("stdMonth"), Text(<<"/">>),
        Std("stdLongYear"), Text(<<":">>), Std("stdHour"), Text(<<":">>),
        Std("stdZeroMinute"), Text(<<":">>), Std("stdZeroSecond"), Text(<<" ">>),
        Std("stdNumTZ") >> >>

\* the formats of parseTimestamp, second copy (lines 861-867)
formats2 ==
  << \* "Jan 2 15:04:05"
     formats[1],
     \* "2006-01-02T15:04:05.000Z"
     DateChunks("T") \o << [Std("stdFracSecond0") EXCEPT !.n = 3], Text(<<"Z">>) >>,
     \* "2006-01-02 15:04:05"
     DateChunks(" "),
     \* time.RFC3339, "2006-01-02T15:04:05Z07:00"
     DateChunks("T") \o << Std("stdISO8601ColonTZ") >>,
     \* time.RFC822, "02 Jan 06 15:04 MST"
     << Std("stdZeroDay"), Text(<<" ">>), Std("stdMonth"), Text(<<" ">>),
        Std("stdYear"), Text(<<" ">>), Std("stdHour"), Text(<<":">>),
        Std("stdZeroMinute"), Text(<<" ">>), Std("stdTZ") >> >>

\* the loop over the formats: what time.Parse gives for the first format that
\* parses ts, an error when none does
RECURSIVE FirstParse(_, _)
FirstParse(fs, ts) ==
  LET try(r) == IF ~r.err THEN r ELSE FirstParse(Tail(fs), ts)
  IN IF fs = << >> THEN [err |-> TRUE, t |-> ZeroTime]
     ELSE try(Parse(fs[1], ts))

\* parseTimestamp of the first copy, lines 388-410: a time of the year 0 gets
\* the year of now, the value time.Now() returns at line 402.  read says
\* whether time.Now() was called.
parseTimestamp(ts, now) ==
  LET anchored(r) ==
        IF r.err THEN [err |-> TRUE, t |-> ZeroTime, read |-> FALSE]
        ELSE IF r.t.year = 0
          THEN [err |-> FALSE, t |-> AddYears(r.t, now.year), read |-> TRUE]
        ELSE [err |-> FALSE, t |-> r.t, read |-> FALSE]
  IN anchored(FirstParse(formats, ts))

\* parseTimestamp of the second copy, lines 859-880, with the call of
\* time.Now() at line 873
parseTimestamp2(ts, now) ==
  LET anchored(r) ==
        IF r.err THEN [err |-> TRUE, t |-> ZeroTime, read |-> FALSE]
        ELSE IF r.t.year = 0
          THEN [err |-> FALSE, t |-> AddYears(r.t, now.year), read |-> TRUE]
        ELSE [err |-> FALSE, t |-> r.t, read |-> FALSE]
  IN anchored(FirstParse(formats2, ts))

\* ------------------------------------------------------------------ regexp
\* A compiled pattern is the sequence of its items, in the order of the
\* pattern's text: ^ and $, a class of bytes repeated (+, *, {n}), the two ends
\* of a capture group, and an optional group (...)? with its own items.

Item(k, cls, c, n, sub) == [k |-> k, cls |-> cls, c |-> c, n |-> n, sub |-> sub]

Bol == Item("bol", "", "", 0, << >>)
Eol == Item("eol", "", "", 0, << >>)
Plus(cls) == Item("plus", cls, "", 0, << >>)
Star(cls) == Item("star", cls, "", 0, << >>)
Times(cls, n) == Item("times", cls, "", n, << >>)
Lit(c) == Item("times", "lit", c, 1, << >>)
PlusNot(c) == Item("plus", "not", c, 0, << >>)
StarNot(c) == Item("star", "not", c, 0, << >>)
Open(g) == Item("open", "", "", g, << >>)
Close(g) == Item("close", "", "", g, << >>)
Opt(sub) == Item("opt", "", "", 0, sub)

\* does the byte ch belong to the class of an item
InClass(ch, it) ==
  CASE it.cls = "w"   -> ch \in WordBytes
    [] it.cls = "d"   -> ch \in {Digits[i] : i \in 1..Len(Digits)}
    [] it.cls = "s"   -> ch \in SpaceBytes
    [] it.cls = "S"   -> ch \notin SpaceBytes
    [] it.cls = "any" -> ch # LF
    [] it.cls = "lit" -> ch = it.c
    [] it.cls = "not" -> ch # it.c
    [] OTHER          -> FALSE

\* how many bytes of s after offset pos belong to the class of it, in a row
RECURSIVE RunLen(_, _, _)
RunLen(s, pos, it) ==
  IF pos < Len(s) /\ InClass(s[pos + 1], it) THEN 1 + RunLen(s, pos + 1, it) ELSE 0

\* Go's regexp gives the match a backtracking matcher finds first: leftmost,
\* every repetition greedy, an optional group taken when it can be.  MatchFrom
\* is every way the items pat match s from offset pos on, in the order such a
\* matcher tries them.  A match is where each group was: caps[g] is [lo, hi),
\* lo = -1 for a group that took no part; group 0 is the whole match.
RECURSIVE MatchFrom(_, _, _, _)
RECURSIVE MatchRep(_, _, _, _, _, _)
MatchFrom(pat, s, pos, caps) ==
  IF pat = << >> THEN << [caps EXCEPT ![0].hi = pos] >>
  ELSE CASE pat[1].k = "bol" ->
              IF pos = 0 THEN MatchFrom(Tail(pat), s, pos, caps) ELSE << >>
         [] pat[1].k = "eol" ->
              IF pos = Len(s) THEN MatchFrom(Tail(pat), s, pos, caps) ELSE << >>
         [] pat[1].k = "open" ->
              MatchFrom(Tail(pat), s, pos, [caps EXCEPT ![pat[1].n].lo = pos])
         [] pat[1].k = "close" ->
              MatchFrom(Tail(pat), s, pos, [caps EXCEPT ![pat[1].n].hi = pos])
         [] pat[1].k = "opt" ->
              MatchFrom(pat[1].sub \o Tail(pat), s, pos, caps)
                \o MatchFrom(Tail(pat), s, pos, caps)
         [] pat[1].k = "times" ->
              IF RunLen(s, pos, pat[1]) >= pat[1].n
                THEN MatchFrom(Tail(pat), s, pos + pat[1].n, caps)
                ELSE << >>
         [] pat[1].k = "plus" ->
              MatchRep(Tail(pat), s, pos, caps, RunLen(s, pos, pat[1]), 1)
         [] pat[1].k = "star" ->
              MatchRep(Tail(pat), s, pos, caps, RunLen(s, pos, pat[1]), 0)

\* a greedy repetition: the longest run first, then one byte less, down to least
MatchRep(rest, s, pos, caps, k, least) ==
  IF k < least THEN << >>
  ELSE MatchFrom(rest, s, pos + k, caps) \o MatchRep(rest, s, pos, caps, k - 1, least)

\* the matches that start at offset start, then those that start later
RECURSIVE FindFrom(_, _, _)
FindFrom(pattern, s, start) ==
  IF start > Len(s) THEN << >>
  ELSE MatchFrom(pattern.items, s, start,
                 [g \in 0..pattern.groups |->
                    [lo |-> IF g = 0 THEN start ELSE -1, hi |-> -1]])
         \o FindFrom(pattern, s, start + 1)

\* Pattern.FindStringSubmatch: nil, or the text of the whole match followed by
\* the text of every group ("" for a group that took no part), for the first
\* match.  matches[1] here is matches[0] in Go.
FindStringSubmatch(pattern, s) ==
  LET all == FindFrom(pattern, s, 0)
  IN IF all = << >> THEN [nil |-> TRUE, matches |-> << >>]
     ELSE [nil |-> FALSE,
           matches |-> [i \in 1..(pattern.groups + 1) |->
                          IF all[1][i - 1].lo < 0 THEN << >>
                          ELSE SubSeq(s, all[1][i - 1].lo + 1, all[1][i - 1].hi)]]

\* ------------------------------------------------------- initDefaultParsers

\* ^(\w+\s+\d+\s+\d+:\d+:\d+)\s+(\S+)\s+(\S+)(\[\d+\])?\s*:\s*(.*)$
syslogPattern ==
  [groups |-> 5,
   items |-> << Bol,
                Open(1), Plus("w"), Plus("s"), Plus("d"), Plus("s"),
                  Plus("d"), Lit(":"), Plus("d"), Lit(":"), Plus("d"), Close(1),
                Plus("s"), Open(2), Plus("S"), Close(2),
                Plus("s"), Open(3), Plus("S"), Close(3),
                Opt(<< Open(4), Lit("["), Plus("d"), Lit("]"), Close(4) >>),
                Star("s"), Lit(":"), Star("s"),
                Open(5), Star("any"), Close(5), Eol >>]

\* ^(\S+)\s+-\s+\S+\s+\[([^\]]+)\]\s+"(\S+)\s+(\S+)\s+\S+"\s+(\d+)\s+(\d+)\s+"[^"]*"\s+"([^"]*)"
nginxPattern ==
  [groups |-> 7,
   items |-> << Bol,
                Open(1), Plus("S"), Close(1), Plus("s"), Lit("-"), Plus("s"),
                Plus("S"), Plus("s"),
                Lit("["), Open(2), PlusNot("]"), Close(2), Lit("]"), Plus("s"),
                Lit("\""), Open(3), Plus("S"), Close(3), Plus("s"),
                  Open(4), Plus("S"), Close(4), Plus("s"), Plus("S"), Lit("\""),
                Plus("s"), Open(5), Plus("d"), Close(5),
                Plus("s"), Open(6), Plus("d"), Close(6), Plus("s"),
                Lit("\""), StarNot("\""), Lit("\""), Plus("s"),
                Lit("\""), Open(7), StarNot("\""), Close(7), Lit("\"") >>]

\* ^(\d{4}-\d{2}-\d{2}T\d{2}:\d{2}:\d{2}\.\d+Z)\s+(.*)$
dockerPattern ==
  [groups |-> 2,
   items |-> << Bol,
                Open(1), Times("d", 4), Lit("-"), Times("d", 2), Lit("-"),
                  Times("d", 2), Lit("T"), Times("d", 2), Lit(":"), Times("d", 2),
                  Lit(":"), Times("d", 2), Lit("."), Plus("d"), Lit("Z"), Close(1),
                Plus("s"), Open(2), Star("any"), Close(2), Eol >>]

\* a syslog parser whose list of fields would lack "pid"
MutParsers ==
  [k \in {"syslog", "nginx", "docker"} |->
     CASE k = "syslog" -> [Source |-> k, Pattern |-> syslogPattern,
                           Fields |-> <<"timestamp", "host", "service", "message">>]
       [] k = "nginx"  -> [Source |-> k, Pattern |-> nginxPattern,
                           Fields |-> <<"ip", "timestamp", "method", "path", "status",
                                        "size", "user_agent">>]
       [] k = "docker" -> [Source |-> k, Pattern |-> dockerPattern,
                           Fields |-> <<"timestamp", "message">>]]

\* lc.parsers
parsers ==
  [k \in {"syslog", "nginx", "docker"} |->
     CASE k = "syslog" -> [Source |-> k, Pattern |-> syslogPattern,
                           Fields |-> <<"timestamp", "host", "service", "pid", "message">>]
       [] k = "nginx"  -> [Source |-> k, Pattern |-> nginxPattern,
                           Fields |-> <<"ip", "timestamp", "method", "path", "status",
                                        "size", "user_agent">>]
       [] k = "docker" -> [Source |-> k, Pattern |-> dockerPattern,
                           Fields |-> <<"timestamp", "message">>]]

\* ---------------------------------------------------------- severity

\* detectLogLevel of the first copy, lines 413-433
detectLogLevel(message) ==
  LET lower == ToLower(message)
  IN IF \/ Contains(lower, <<"f", "a", "t", "a", "l">>)
        \/ Contains(lower, <<"p", "a", "n", "i", "c">>)
       THEN "fatal"
     ELSE IF \/ Contains(lower, <<"e", "r", "r", "o", "r">>)
             \/ Contains(lower, <<"e", "r", "r">>)
       THEN "error"
     ELSE IF \/ Contains(lower, <<"w", "a", "r", "n">>)
             \/ Contains(lower, <<"w", "a", "r", "n", "i", "n", "g">>)
       THEN "warn"
     ELSE IF Contains(lower, <<"d", "e", "b", "u", "g">>) THEN "debug"
     ELSE IF Contains(lower, <<"i", "n", "f", "o">>) THEN "info"
     ELSE "unknown"

\* detectLogLevel of the second copy, lines 882-902
detectLogLevel2(message) ==
  LET lowerMsg == ToLower(message)
  IN IF \/ Contains(lowerMsg, <<"e", "r", "r", "o", "r">>)
        \/ Contains(lowerMsg, <<"e", "r", "r">>)
       THEN "error"
     ELSE IF \/ Contains(lowerMsg, <<"w", "a", "r", "n">>)
             \/ Contains(lowerMsg, <<"w", "a", "r", "n", "i", "n", "g">>)
       THEN "warn"
     ELSE IF \/ Contains(lowerMsg, <<"f", "a", "t", "a", "l">>)
             \/ Contains(lowerMsg, <<"p", "a", "n", "i", "c">>)
       THEN "fatal"
     ELSE IF Contains(lowerMsg, <<"d", "e", "b", "u", "g">>) THEN "debug"
     ELSE IF Contains(lowerMsg, <<"i", "n", "f", "o">>) THEN "info"
     ELSE "info"

\* ---------------------------------------------------------- parseLogLine

\* fmt.Sscanf(s, "%d", &statusCode) on the digits the status group captured
RECURSIVE parseStatusCode(_)
parseStatusCode(s) ==
  IF s = << >> THEN 0
  ELSE 10 * parseStatusCode(SubSeq(s, 1, Len(s) - 1))
         + ((CHOOSE i \in 1..Len(Digits) : Digits[i] = s[Len(s)]) - 1)

\* parseLogLine returns nil (first copy, lines 295-297)
NoLog == [nil |-> TRUE]

\* A SystemLog with the fields every path of parseLogLine sets and the zero
\* value in the others.  Name is not a field of the Go struct: it is the
\* source the line was read for.  Level "" is the zero LogLevel.  ID,
\* Timestamp and CollectedAt, which come from the clock, are not in the record:
\* parseLogLineAt adds them.
SystemLog(line, config) ==
  [Source |-> config.Source, Name |-> config.Name, RawLog |-> line,
   Tags |-> config.Tags, Message |-> << >>, Level |-> "", Host |-> << >>,
   Service |-> << >>, IP |-> << >>, Method |-> << >>, Path |-> << >>,
   StatusCode |-> 0, ParsedData |-> << >>]

\* the line saved as a raw log: no parser, or the pattern does not match
RawLog(line, config, level) ==
  [SystemLog(line, config) EXCEPT !.Message = line, !.Level = level]

\* The loop over parser.Fields (lines 328-361, the same in the second copy,
\* lines 790-824): field number i takes matches[i+1] when the match has it, and
\* some fields are copied into the record.  No two fields set the same
\* member, so the loop is written member by member.  copy says which copy's
\* detectLogLevel the loop calls.
MapFields(line, config, parser, matches, copy) ==
  LET has(f) == \E i \in 1..Len(parser.Fields) :
                  parser.Fields[i] = f /\ i + 1 <= Len(matches)
      val(f) == matches[(CHOOSE i \in 1..Len(parser.Fields) : parser.Fields[i] = f) + 1]
      get(f) == IF has(f) THEN val(f) ELSE << >>
  IN [SystemLog(line, config) EXCEPT
        !.ParsedData = [f \in {parser.Fields[i] : i \in 1..Min(Len(parser.Fields),
                                                                Len(matches) - 1)}
                          |-> val(f)],
        !.Message = get("message"),
        !.Level = IF ~has("message") THEN ""
                  ELSE IF copy = 1 THEN detectLogLevel(val("message"))
                  ELSE detectLogLevel2(val("message")),
        !.Host = get("host"),
        !.Service = get("service"),
        !.IP = get("ip"),
        !.Method = get("method"),
        !.Path = get("path"),
        !.StatusCode = IF has("status") THEN parseStatusCode(val("status")) ELSE 0]

\* the blank line is not filtered
MutParseLogLine(line, config) ==
  IF config.Source \notin DOMAIN parsers
    THEN RawLog(line, config, detectLogLevel(line))
    ELSE LET parser == parsers[config.Source]
             found  == FindStringSubmatch(parser.Pattern, line)
         IN IF found.nil THEN RawLog(line, config, detectLogLevel(line))
            ELSE MapFields(line, config, parser, found.matches, 1)

\* parseLogLine of the first copy, lines 294-364
parseLogLine(line, config) ==
  IF IsBlank(line) THEN NoLog
  ELSE IF config.Source \notin DOMAIN parsers
    THEN RawLog(line, config, detectLogLevel(line))
    ELSE LET parser == parsers[config.Source]
             found  == FindStringSubmatch(parser.Pattern, line)
         IN IF found.nil THEN RawLog(line, config, detectLogLevel(line))
            ELSE MapFields(line, config, parser, found.matches, 1)

\* parseLogLine of the second copy, lines 750-827: no blank check, and a raw
\* log has the level "unknown"
parseLogLine2(line, config) ==
  IF config.Source \notin DOMAIN parsers
    THEN RawLog(line, config, "unknown")
    ELSE LET parser == parsers[config.Source]
             found  == FindStringSubmatch(parser.Pattern, line)
         IN IF found.nil THEN RawLog(line, config, "unknown")
            ELSE MapFields(line, config, parser, found.matches, 2)

\* ------------------------------------------------------------- the clock

\* The values time.Now() can return, in the order of time: two in one
\* microsecond, and the first instant of the next year.
Instants ==
  << Time(2024, 12, 31, 23, 59, 59, 999998500, 0),
     Time(2024, 12, 31, 23, 59, 59, 999998900, 0),
     Time(2025, 1, 1, 0, 0, 0, 0, 0) >>

\* the most calls of time.Now() one parseLogLine makes: lines 300 (two), 304,
\* 311 or 321 or 328, and 402
NowCalls == 5

\* What the calls of time.Now() of one parseLogLine can return when the clock
\* stood at Instants[from] before: the clock does not go back.
Readings(from) ==
  { now \in [1..NowCalls -> from..Len(Instants)] :
      \A i \in 1..(NowCalls - 1) : now[i] <= now[i + 1] }

\* line 300: fmt.Sprintf("log_%d%06d", time.Now().Unix(),
\* time.Now().Nanosecond()/1000), of two readings of the clock
LogID(unix, nano) ==
  <<"l", "o", "g", "_">> \o Itoa(Unix(unix)) \o ZeroPad(Itoa(nano.nsec \div 1000), 6)

\* lines 755, 770, 783: fmt.Sprintf("log_%d", time.Now().UnixNano()); the
\* digits of UnixNano() are those of Unix() and the nine of the nanoseconds
LogID2(t) == <<"l", "o", "g", "_">> \o Itoa(Unix(t)) \o ZeroPad(Itoa(t.nsec), 9)

\* the Timestamp comes from a clock value kept from before the call
MutParseLogLineAt(line, config, now) ==
  LET stamp(log) ==
        IF log = NoLog THEN [log |-> NoLog, calls |-> 0]
        ELSE [log   |-> [ID |-> LogID(now[1], now[2]), CollectedAt |-> now[3],
                         Timestamp |-> Instants[clock]] @@ log,
              calls |-> 4]
  IN stamp(parseLogLine(line, config))

\* parseLogLine of the first copy with the members it reads from the clock.
\* now is what the calls of time.Now() return, in the order of the calls: the
\* two of the ID (line 300), CollectedAt (line 304), Timestamp (line 311, 321
\* or 328) and the one of parseTimestamp (line 402).  calls is how many calls
\* were made.
parseLogLineAt(line, config, now) ==
  LET \* lines 300-328: the record with its ID, CollectedAt and default Timestamp
      stamped(log) == [ID |-> LogID(now[1], now[2]), CollectedAt |-> now[3],
                       Timestamp |-> now[4]] @@ log
      \* lines 339-341: the Timestamp with what parseTimestamp returned
      parsed(log, ts) ==
        [log   |-> IF ts.err THEN log ELSE [log EXCEPT !.Timestamp = ts.t],
         calls |-> IF ts.read THEN 5 ELSE 4]
      timed(log) ==
        IF log = NoLog THEN [log |-> NoLog, calls |-> 0]
        ELSE IF "timestamp" \notin DOMAIN log.ParsedData
          THEN [log |-> stamped(log), calls |-> 4]
        ELSE parsed(stamped(log), parseTimestamp(log.ParsedData["timestamp"], now[5]))
  IN timed(parseLogLine(line, config))

\* parseLogLine of the second copy with the members it reads from the clock:
\* ID, Timestamp and CollectedAt of a raw log (lines 755-762, 770-777); ID and
\* CollectedAt of a parsed one (lines 783, 787), whose Timestamp is the parsed
\* time, with the call of line 873, or the clock when parseTimestamp fails
\* (lines 800-804)
parseLogLine2At(line, config, now) ==
  LET parsed(log, ts) ==
        [log   |-> [ID |-> LogID2(now[1]), CollectedAt |-> now[2],
                    Timestamp |-> IF ts.err THEN now[3] ELSE ts.t] @@ log,
         calls |-> IF ts.err \/ ts.read THEN 3 ELSE 2]
      timed(log) ==
        IF "timestamp" \notin DOMAIN log.ParsedData
          THEN [log   |-> [ID |-> LogID2(now[1]), Timestamp |-> now[2],
                           CollectedAt |-> now[3]] @@ log,
                calls |-> 3]
        ELSE parsed(log, parseTimestamp2(log.ParsedData["timestamp"], now[3]))
  IN timed(parseLogLine2(line, config))

\* a scanner loop that hands the records over last line first
RECURSIVE MutRecords(_, _, _)
MutRecords(toks, config, file) ==
  IF toks = << >> THEN << >>
  ELSE LET log  == parseLogLine(toks[1].text, config)
           rest == MutRecords(Tail(toks), config, file)
       IN IF log = NoLog THEN rest
          ELSE rest \o << [ino |-> file.ino, gen |-> file.gen, off |-> toks[1].off,
                           log |-> log] >>

\* the scanner loop of the first copy, lines 277-282: the records of the tokens
\* parseLogLine accepts, in order, each with the place it was read from
RECURSIVE Records(_, _, _)
Records(toks, config, file) ==
  IF toks = << >> THEN << >>
  ELSE LET log  == parseLogLine(toks[1].text, config)
           rest == Records(Tail(toks), config, file)
       IN IF log = NoLog THEN rest
          ELSE << [ino |-> file.ino, gen |-> file.gen, off |-> toks[1].off,
                   log |-> log] >> \o rest

\* the scanner loop of the second copy, lines 713-725: blank lines are skipped
\* before parseLogLine
RECURSIVE Records2(_, _, _)
Records2(toks, config, file) ==
  IF toks = << >> THEN << >>
  ELSE LET rest == Records2(Tail(toks), config, file)
       IN IF IsBlank(toks[1].text) THEN rest
          ELSE LET log == parseLogLine2(toks[1].text, config)
               IN IF log = NoLog THEN rest
                  ELSE << [ino |-> file.ino, gen |-> file.gen, off |-> toks[1].off,
                           log |-> log] >> \o rest

\* first copy, lines 264-267: the offset the read pass seeks to
SeekStart(size, lastPosition) == IF size < lastPosition THEN 0 ELSE lastPosition

\* second copy, line 709: it seeks to lastPosition whatever the size
SeekStart2(size, lastPosition) == lastPosition

\* the position is not saved
MutNewPosition(lastPosition, reached) == lastPosition

\* first copy, lines 284-286: the saved position is the offset the file
\* descriptor reached, whatever the position was before
NewPosition(lastPosition, reached) == reached

\* second copy, lines 727-730: the saved position is the size file.Stat()
\* reports, and the old position when file.Stat() fails
NewPosition2(lastPosition, size, statOK) == IF statOK THEN size ELSE lastPosition

\* every source is started
MutShouldCollect(source) == TRUE

\* line 214: is a goroutine started for this source
ShouldCollect(source) == source.Enabled

\* Start() never refuses
MutAlreadyRunning(flag) == FALSE

\* line 190: does Start() refuse to start
AlreadyRunning(flag) == flag

\* the loop never ends
MutLoopContinues(flag) == TRUE

\* line 238: does the loop condition let the goroutine go on
LoopContinues(flag) == flag

\* lastPosition is one variable of the Go program
MutSetTask(ts, t, me) ==
  [u \in DOMAIN ts |->
     IF u = t THEN me ELSE [ts[u] EXCEPT !.lastPosition = me.lastPosition]]

\* Line 236: lastPosition, like the ticker and the file, is a local of the
\* goroutine: a step of goroutine t changes the state of goroutine t only.
SetTask(ts, t, me) == [ts EXCEPT ![t] = me]

\* a goroutine that would begin past the first byte of its file
MutNewTask(config) ==
  [config |-> config, pc |-> "loop", lastPosition |-> 1, fd |-> NoFile,
   from |-> 0, outcome |-> "none", rotated |-> FALSE]

\* a goroutine at its start, lines 232-236
NewTask(config) ==
  [config |-> config, pc |-> "loop", lastPosition |-> 0, fd |-> NoFile,
   from |-> 0, outcome |-> "none", rotated |-> FALSE]

\* lines 213-217: the sources Start() starts a goroutine for, in order
RECURSIVE Spawn(_)
Spawn(ss) ==
  IF ss = << >> THEN << >>
  ELSE IF ShouldCollect(ss[1]) THEN << ss[1] >> \o Spawn(Tail(ss)) ELSE Spawn(Tail(ss))

ErrorEvent(config) == [EventType |-> "error", source |-> config.Name]
StartEvent == [EventType |-> "log_collector_start", source |-> ""]
StopEvent  == [EventType |-> "log_collector_stop", source |-> ""]
CollectedEvent(config) == [EventType |-> "logs_collected", source |-> config.Name]

\* LogError for a record json.Marshal refused.  log stands for what the details
\* name: the record's log_id (first copy), the record (second copy).
MarshalError(log) == [EventType |-> "error", log |-> log]

\* second copy, lines 839-854
CriticalEvent(log) == [EventType |-> "critical_system_log", log |-> log]

\* a failed json.Marshal is not reported
MutProcessSystemLog(log, marshalOK) == [printed |-> marshalOK, events |-> << >>]

\* processSystemLog of the first copy, lines 367-385: the record is printed
\* when json.Marshal takes it and reported as an error when it does not
processSystemLog(log, marshalOK) ==
  [printed |-> marshalOK,
   events  |-> IF marshalOK THEN << >> ELSE << MarshalError(log) >>]

\* processSystemLog of the second copy, lines 829-856: a printed record of
\* level error or fatal is also written to the audit log
processSystemLog2(log, marshalOK) ==
  [printed |-> marshalOK,
   events  |-> IF ~marshalOK THEN << MarshalError(log) >>
               ELSE IF log.Level = "error" \/ log.Level = "fatal"
                 THEN << CriticalEvent(log) >>
               ELSE << >>]

\* the events of the records of one read pass, in the order of the records
RECURSIVE Flatten(_)
Flatten(seqs) == IF seqs = << >> THEN << >> ELSE seqs[1] \o Flatten(Tail(seqs))

\* -------------------------------------------------------------------- Init

\* New(): the state after construction, with every watched file present and empty
Boot ==
  /\ running = FALSE
  /\ tasks = << >>
  /\ emitted = << >>
  /\ events = << >>
  /\ ncalls = 0
  /\ lastCall = [op |-> "none", err |-> ""]
  /\ dir = [p \in Paths |-> CHOOSE s \in SourceIds : sources[s].Path = p]
  /\ inodes = [i \in SourceIds |-> [data |-> << >>, gen |-> 0]]
  /\ fileOps = 0
  /\ faults = 0
  /\ registry = sources
  /\ held = FALSE

\* no line is given to the loop body on its own
NoInput == [none |-> TRUE]

NotBuilt == [stage |-> "none", log |-> NoLog, printed |-> FALSE, now |-> << >>]

\* no line is in the loop body on its own, and no HTTP request is under way
Idle ==
  /\ input = NoInput
  /\ built = NotBuilt
  /\ clock = 1
  /\ made = << >>
  /\ reqs = << >>

Init == Boot /\ Idle /\ version = 1

Init2 == Boot /\ Idle /\ version = 2

\* ------------------------------------------------------- lifecycle calls

\* a Start() that would record its audit event twice
MutStart ==
  /\ EnvSteps < MaxEnvSteps
  /\ ncalls' = ncalls + 1
  /\ IF AlreadyRunning(running)
       THEN /\ lastCall' = [op |-> "Start", err |-> "log collector already running"]
            /\ UNCHANGED <<running, tasks, emitted, events>>
       ELSE /\ running' = TRUE
            /\ events' = events \o << StartEvent, StartEvent >>
            /\ LET new == Spawn(registry)
               IN /\ tasks' = tasks \o [i \in 1..Len(new) |-> NewTask(new[i])]
                  /\ emitted' = emitted \o [i \in 1..Len(new) |-> << >>]
            /\ lastCall' = [op |-> "Start", err |-> ""]
  /\ UNCHANGED <<builder, callers, version, dir, inodes, fileOps, faults>>


\* Start(), lines 189-220
Start ==
  /\ EnvSteps < MaxEnvSteps
  /\ ncalls' = ncalls + 1
  /\ IF AlreadyRunning(running)
       THEN /\ lastCall' = [op |-> "Start", err |-> "log collector already running"]
            /\ UNCHANGED <<running, tasks, emitted, events>>
       ELSE /\ running' = TRUE
            /\ events' = Append(events, StartEvent)
            /\ LET new == Spawn(registry)
               IN /\ tasks' = tasks \o [i \in 1..Len(new) |-> NewTask(new[i])]
                  /\ emitted' = emitted \o [i \in 1..Len(new) |-> << >>]
            /\ lastCall' = [op |-> "Start", err |-> ""]
  /\ UNCHANGED <<builder, callers, version, dir, inodes, fileOps, faults>>

\* Stop(), lines 223-229
Stop ==
  /\ EnvSteps < MaxEnvSteps
  /\ ncalls' = ncalls + 1
  /\ running' = FALSE
  /\ events' = Append(events, StopEvent)
  /\ lastCall' = [op |-> "Stop", err |-> ""]
  /\ UNCHANGED <<builder, callers, version, tasks, emitted, dir, inodes, fileOps, faults>>

\* ------------------------------------------------- collectFromSource steps

\* line 238: the loop condition, read at the top of every iteration
LoopCheck(t) ==
  /\ t \in TaskIds
  /\ tasks[t].pc = "loop"
  /\ tasks' = SetTask(tasks, t, [tasks[t] EXCEPT !.pc =
                 IF LoopContinues(running) THEN "wait" ELSE "stopped"])
  /\ UNCHANGED <<builder, callers, version, running, emitted, events, ncalls, lastCall,
                 dir, inodes, fileOps, faults>>

\* a skipped cycle that would leave the file of the source open
MutSkippedOpen(me, why, position) ==
  [me EXCEPT !.pc = "loop", !.outcome = why, !.lastPosition = position,
             !.fd = dir[me.config.Path], !.rotated = FALSE]

\* `return` where the code has `continue`
MutSkipped(me, why, position) ==
  [me EXCEPT !.pc = "stopped", !.outcome = why, !.lastPosition = position,
             !.fd = NoFile, !.rotated = FALSE]

\* a cycle that ends before the read pass (the `continue`s of lines 244-272)
Skipped(me, why, position) ==
  [me EXCEPT !.pc = "loop", !.outcome = why, !.lastPosition = position,
             !.fd = NoFile, !.rotated = FALSE]

\* the file is open and the descriptor stands at offset from
Opened(me, ino, size, position, from) ==
  [me EXCEPT !.pc = "read", !.outcome = "opened", !.fd = ino,
             !.rotated = (size < me.lastPosition),
             !.lastPosition = position, !.from = from]

\* the failure is not reported
MutOpenFailed(evs, config) == evs

\* lines 249-254: a failed os.Open is reported through the audit logger
OpenFailed(evs, config) == Append(evs, ErrorEvent(config))

\* First copy, lines 240-273: os.Stat, os.Open, file.Stat, the rotation check
\* and file.Seek; a failing file.Stat or file.Seek closes the file and skips.
TickResult(me, ino, size, fail) ==
  CASE fail = "open" -> Skipped(me, "openfail", me.lastPosition)
    [] fail = "stat" -> Skipped(me, "statfail", me.lastPosition)
    [] fail = "seek" -> Skipped(me, "seekfail", SeekStart(size, me.lastPosition))
    [] OTHER -> Opened(me, ino, size, SeekStart(size, me.lastPosition),
                       SeekStart(size, me.lastPosition))

\* Second copy, lines 691-710: os.Stat, os.Open and file.Seek, whose error is
\* dropped: after a failed Seek the descriptor still stands at offset 0.
TickResult2(me, ino, size, fail) ==
  CASE fail = "open" -> Skipped(me, "openfail", me.lastPosition)
    [] fail = "seek" -> Opened(me, ino, size, me.lastPosition, 0)
    [] OTHER -> Opened(me, ino, size, me.lastPosition,
                       SeekStart2(size, me.lastPosition))

\* The tick arrives and the cycle runs up to the read pass.  fail is the call
\* the system makes fail this time.
Tick(t) ==
  /\ t \in TaskIds
  /\ tasks[t].pc = "wait"
  /\ LET me  == tasks[t]
         ino == dir[me.config.Path]
     IN IF ino = NoFile
          THEN /\ tasks' = SetTask(tasks, t, Skipped(me, "missing", me.lastPosition))
               /\ UNCHANGED <<events, faults>>
          ELSE \E fail \in (IF version = 1 THEN {"none", "open", "stat", "seek"}
                                           ELSE {"none", "open", "seek"}) :
                 LET size == Len(inodes[ino].data)
                 IN /\ fail # "none" => EnvSteps < MaxEnvSteps
                    /\ faults' = IF fail = "none" THEN faults ELSE faults + 1
                    /\ events' = IF fail = "open"
                                   THEN OpenFailed(events, me.config)
                                   ELSE events
                    /\ tasks' = SetTask(tasks, t,
                                   IF version = 1 THEN TickResult(me, ino, size, fail)
                                                  ELSE TickResult2(me, ino, size, fail))
  /\ UNCHANGED <<builder, callers, version, running, emitted, ncalls, lastCall, dir, inodes, fileOps>>

\* The scanner loop, the saved position and file.Close() (lines 275-288; in the
\* second copy lines 710-745, with the logs_collected event).  reached is the
\* offset up to which the reads succeeded: the end of the file, or less when a
\* read fails on the way; statOK is whether the second copy's file.Stat() works.
\* file.Seek(0, 1) of line 285 asks only for the offset of a descriptor that
\* file.Seek(lastPosition, 0) has just positioned: it does not fail.
\* bad is the record of this pass json.Marshal refuses, 0 when it takes all.
\* spare is what the failures of reached and statOK leave of MaxEnvSteps.
ReadPass(t) ==
  /\ t \in TaskIds
  /\ tasks[t].pc = "read"
  /\ LET me   == tasks[t]
         file == [ino |-> me.fd, gen |-> inodes[me.fd].gen]
         data == inodes[me.fd].data
         from == me.from
         size == Len(data)
     IN \E reached \in (IF from < size THEN from..size ELSE {from}),
           statOK \in (IF version = 1 THEN {TRUE} ELSE BOOLEAN) :
        \E readFailed \in { reached < size /\ from < size } :
        \E spare \in { MaxEnvSteps - EnvSteps - (IF readFailed THEN 1 ELSE 0)
                                             - (IF statOK THEN 0 ELSE 1) } :
        /\ spare >= 0
        /\ \E toks \in { ScanTokens(data, from, reached) } :
           \E new \in { IF version = 1 THEN Records(toks, me.config, file)
                                        ELSE Records2(toks, me.config, file) } :
           \E bad \in (IF spare > 0 THEN 0..Len(new) ELSE {0}) :
           \E sunk \in { [i \in 1..Len(new) |->
                            IF version = 1 THEN processSystemLog(new[i].log, i # bad)
                                           ELSE processSystemLog2(new[i].log, i # bad)] } :
          LET nfaults == (IF readFailed THEN 1 ELSE 0) + (IF statOK THEN 0 ELSE 1)
                           + (IF bad = 0 THEN 0 ELSE 1)
          IN
             /\ faults' = faults + nfaults
             /\ emitted' = [emitted EXCEPT ![t] = @ \o
                              [i \in 1..Len(new) |->
                                 [ino |-> new[i].ino, gen |-> new[i].gen,
                                  off |-> new[i].off, log |-> new[i].log,
                                  printed |-> sunk[i].printed]]]
             /\ events' = events
                            \o Flatten([i \in 1..Len(new) |-> sunk[i].events])
                            \o (IF version = 2 /\ Len(new) > 0
                                  THEN << CollectedEvent(me.config) >>
                                  ELSE << >>)
             /\ tasks' = SetTask(tasks, t,
                  [me EXCEPT !.pc = "loop", !.fd = NoFile,
                             !.outcome = IF readFailed THEN "readfail" ELSE "read",
                             !.lastPosition =
                                IF version = 1
                                  THEN NewPosition(me.lastPosition, reached)
                                  ELSE NewPosition2(me.lastPosition, size, statOK)])
  /\ UNCHANGED <<builder, callers, version, running, ncalls, lastCall, dir, inodes, fileOps>>

\* ------------------------------------------- the processes writing the logs

FileAppend(p, chunk) ==
  /\ EnvSteps < MaxEnvSteps
  /\ dir[p] # NoFile
  /\ Len(inodes[dir[p]].data) + Len(chunk) <= MaxFileLen
  /\ inodes' = [inodes EXCEPT ![dir[p]].data = @ \o chunk]
  /\ fileOps' = fileOps + 1
  /\ UNCHANGED <<builder, callers, version, running, tasks,
                 emitted, events, ncalls, lastCall, dir, faults>>

\* truncation in place (logrotate's copytruncate)
FileTruncate(p) ==
  /\ EnvSteps < MaxEnvSteps
  /\ dir[p] # NoFile
  /\ inodes[dir[p]].data # << >>
  /\ inodes' = [inodes EXCEPT ![dir[p]] = [data |-> << >>, gen |-> @.gen + 1]]
  /\ fileOps' = fileOps + 1
  /\ UNCHANGED <<builder, callers, version, running, tasks,
                 emitted, events, ncalls, lastCall, dir, faults>>

\* the file is renamed away or deleted; a goroutine that has it open keeps it
FileRemove(p) ==
  /\ EnvSteps < MaxEnvSteps
  /\ dir[p] # NoFile
  /\ dir' = [dir EXCEPT ![p] = NoFile]
  /\ fileOps' = fileOps + 1
  /\ UNCHANGED <<builder, callers, version, running, tasks,
                 emitted, events, ncalls, lastCall, inodes, faults>>

\* a new, empty file appears at the path
FileCreate(p) ==
  /\ EnvSteps < MaxEnvSteps
  /\ dir[p] = NoFile
  /\ inodes' = Append(inodes, [data |-> << >>, gen |-> 0])
  /\ dir' = [dir EXCEPT ![p] = Len(inodes) + 1]
  /\ fileOps' = fileOps + 1
  /\ UNCHANGED <<builder, callers, version, running, tasks, emitted, events, ncalls, lastCall, faults>>

\* truncation in place and the next write of the logging process, both
\* between two polls: no goroutine has the file open
FileRewrite(p, chunk) ==
  /\ EnvSteps < MaxEnvSteps
  /\ dir[p] # NoFile
  /\ \A t \in TaskIds : tasks[t].fd # dir[p]
  /\ inodes[dir[p]].data # << >>
  /\ inodes' = [inodes EXCEPT ![dir[p]] = [data |-> chunk, gen |-> @.gen + 1]]
  /\ fileOps' = fileOps + 1
  /\ UNCHANGED <<builder, callers, version, running, tasks,
                 emitted, events, ncalls, lastCall, dir, faults>>

\* ------------------------------------------------- the loop body on its own
\* One line, with one source configuration, goes through the body of the
\* scanner loop: parseLogLine (Build), then processSystemLog (Process).

\* LogSourceConfig values of every LogSource kind: the two kinds of the
\* built-in registry, and one made-up source for each of the other kinds
Configs ==
  { DefaultSources[1], DefaultSources[5] } \cup
  { [Name |-> k, Source |-> k, Path |-> k, Enabled |-> TRUE, Tags |-> << >>,
     Interval |-> 5] : k \in {"apache", "docker", "kubernetes", "custom"} }

Lines ==
  { <<"J", "u", "n", " ", "1", "5", " ", "0", "1", ":", "5", "7", ":", "4",
    "8", " ", "s", "e", "r", "v", "e", "r", "0", "1", " ", "s", "y", "s",
    "t", "e", "m", "d", "[", "1", "]", ":", " ", "S", "t", "a", "r", "t",
    "e", "d", " ", "n", "g", "i", "n", "x", ".", "s", "e", "r", "v", "i",
    "c", "e">>,
    <<"J", "u", "n", " ", "1", " ", "1", ":", "2", ":", "3", " ", "h", " ",
    "s", ":">>,
    <<"J", "u", "n", " ", "1", " ", "1", ":", "2", ":", "3", " ", "h", " ",
    "s", "s", "h", "d", "[", "7", "]", ":", " ", "f", "a", "t", "a", "l",
    " ", "e", "r", "r", "o", "r">>,
    <<"1", ".", "2", ".", "3", ".", "4", " ", "-", " ", "-", " ", "[", "t",
    "]", " ", "\"", "G", "E", "T", " ", "/", " ", "H", "T", "T", "P", "/",
    "1", ".", "1", "\"", " ", "2", "0", "0", " ", "5", " ", "\"", "-", "\"",
    " ", "\"", "u", "a", "\"">>,
    <<"2", "0", "2", "4", "-", "0", "1", "-", "0", "2", "T", "0", "3", ":",
    "0", "4", ":", "0", "5", ".", "1", "Z", " ", "p", "a", "n", "i", "c",
    " ", "n", "o", "w">>,
    <<"2", "0", "2", "4", "-", "0", "1", "-", "0", "2", "T", "0", "3", ":",
    "0", "4", ":", "0", "5", ".", "1", "Z", " ">>,
    <<"a">>,
    <<"f", "a", "t", "a", "l", " ", "e", "r", "r", "o", "r">>,
    <<"E", "r", "r", "o", "r", " ", "x">>,
    <<"s", "t", "d", "e", "r", "r">>,
    <<"W", "A", "R", "N", "I", "N", "G">>,
    <<"d", "e", "b", "u", "g", " ", "i", "n", "f", "o">>,
    <<"I", "n", "f", "o">>,
    <<"p", "a", "n", "i", "c", ":", " ", "w", "a", "r", "n">>,
    << >>,
    <<" ">>,
    <<" ", "\t">> }

ParseInit ==
  /\ Boot
  /\ input \in [line : Lines, config : Configs]
  /\ built = NotBuilt
  /\ clock = 1
  /\ made = << >>
  /\ reqs = << >>

\* Lines 277-279 (second copy: lines 714-720), up to the call of
\* processSystemLog.  built.now is what the calls of time.Now() returned.
Build ==
  /\ input # NoInput
  /\ built.stage = "none"
  /\ \E now \in Readings(clock) :
     \E res \in { IF version = 1
                    THEN parseLogLineAt(input.line, input.config,
                                        [i \in 1..NowCalls |-> Instants[now[i]]])
                  ELSE IF IsBlank(input.line) THEN [log |-> NoLog, calls |-> 0]
                  ELSE parseLogLine2At(input.line, input.config,
                                       [i \in 1..NowCalls |-> Instants[now[i]]]) } :
       /\ \A i \in 1..NowCalls :
            i > res.calls => now[i] = (IF res.calls = 0 THEN clock ELSE now[res.calls])
       /\ built' = [stage |-> "built", printed |-> FALSE, log |-> res.log,
                    now |-> SubSeq(now, 1, res.calls)]
       /\ clock' = now[NowCalls]
  /\ UNCHANGED <<version, running, tasks, emitted, events, ncalls, lastCall,
                 dir, inodes, fileOps, faults, input, made, callers>>

\* the call of processSystemLog, lines 280 and 721
Process ==
  /\ built.stage = "built"
  /\ built.log # NoLog
  /\ \E marshalOK \in BOOLEAN :
       LET done == IF version = 1 THEN processSystemLog(built.log, marshalOK)
                                  ELSE processSystemLog2(built.log, marshalOK)
       IN /\ built' = [built EXCEPT !.stage = "done", !.printed = done.printed]
          /\ events' = events \o done.events
  /\ UNCHANGED <<version, running, tasks, emitted, ncalls, lastCall,
                 dir, inodes, fileOps, faults, input, clock, made, callers>>

\* the lines and the sources of LoopSpec: a syslog line whose time stamp has
\* no year and a line the syslog pattern does not match, of the two sources
\* that are enabled
LoopLines ==
  { <<"J", "u", "n", " ", "1", " ", "0", "1", ":", "0", "2", ":", "0", "3", " ",
      "h", " ", "s", ":", " ", "x">>,
    <<"a">> }

LoopConfigs == { DefaultSources[1], DefaultSources[2] }

\* scanner.Scan() gives the next line (lines 277, 713), to this goroutine or
\* to the goroutine of another source; what was built of the line before is
\* kept in made
Again ==
  /\ built.stage # "none"
  /\ Len(made) + 1 < MaxBuilt
  /\ made' = Append(made, [line |-> input.line, config |-> input.config,
                           now |-> built.now, log |-> built.log])
  /\ \E line \in LoopLines, config \in LoopConfigs :
       input' = [line |-> line, config |-> config]
  /\ built' = NotBuilt
  /\ UNCHANGED <<version, running, tasks, emitted, events, ncalls, lastCall,
                 dir, inodes, fileOps, faults, clock, callers>>

ParseNext == Build \/ Process

\* parseLogLine is called for line after line
LoopNext == Build \/ Again

LoopInit ==
  /\ Boot
  /\ version = 1
  /\ input \in [line : LoopLines, config : LoopConfigs]
  /\ built = NotBuilt
  /\ clock = 1
  /\ made = << >>
  /\ reqs = << >>

\* the record builder of the first copy, on up to MaxBuilt lines
LoopSpec == LoopInit /\ [][LoopNext]_vars

\* the loop body of the first copy, on every line and configuration
ParseInit1 == ParseInit /\ version = 1

ParseInit2 == ParseInit /\ version = 2

ParseSpec == ParseInit1 /\ [][ParseNext]_vars

\* the loop body of the second copy
ParseSpec2 == ParseInit2 /\ [][ParseNext]_vars

\* ----------------------------------------------------------- parseTimestamp
\* parseTimestamp on its own: the text of a "timestamp" group, and the clock
\* at the moment of the call.

\* texts the "timestamp" groups of the three patterns can capture
Stamps ==
  {
    \* "Jun 15 01:57:48"
    <<"J", "u", "n", " ", "1", "5", " ", "0", "1", ":", "5", "7", ":", "4",
      "8">>,
    \* "Feb 29 10:00:00"
    <<"F", "e", "b", " ", "2", "9", " ", "1", "0", ":", "0", "0", ":", "0",
      "0">>,
    \* "Jun 1 1:2:3"
    <<"J", "u", "n", " ", "1", " ", "1", ":", "2", ":", "3">>,
    \* "2024-01-02T03:04:05.1Z"
    <<"2", "0", "2", "4", "-", "0", "1", "-", "0", "2", "T", "0", "3", ":", "0",
      "4", ":", "0", "5", ".", "1", "Z">>,
    \* "2024-01-02T03:04:05Z"
    <<"2", "0", "2", "4", "-", "0", "1", "-", "0", "2", "T", "0", "3", ":", "0",
      "4", ":", "0", "5", "Z">>,
    \* "2024-01-02T03:04:05+02:00"
    <<"2", "0", "2", "4", "-", "0", "1", "-", "0", "2", "T", "0", "3", ":", "0",
      "4", ":", "0", "5", "+", "0", "2", ":", "0", "0">>,
    \* "2024-01-02 03:04:05"
    <<"2", "0", "2", "4", "-", "0", "1", "-", "0", "2", " ", "0", "3", ":", "0",
      "4", ":", "0", "5">>,
    \* "02/Jan/2024:03:04:05 -0700"
    <<"0", "2", "/", "J", "a", "n", "/", "2", "0", "2", "4", ":", "0", "3", ":",
      "0", "4", ":", "0", "5", " ", "-", "0", "7", "0", "0">>,
    \* "02 Jan 24 15:04 MST"
    <<"0", "2", " ", "J", "a", "n", " ", "2", "4", " ", "1", "5", ":", "0", "4",
      " ", "M", "S", "T">>,
    \* "0000-01-02T03:04:05.1Z"
    <<"0", "0", "0", "0", "-", "0", "1", "-", "0", "2", "T", "0", "3", ":", "0",
      "4", ":", "0", "5", ".", "1", "Z">>,
    \* "0000-01-02 03:04:05"
    <<"0", "0", "0", "0", "-", "0", "1", "-", "0", "2", " ", "0", "3", ":", "0",
      "4", ":", "0", "5">>,
    \* "t"
    <<"t">>,
    \* ""
    << >> }

StampInit ==
  /\ Boot
  /\ version \in {1, 2}
  /\ input \in [ts : Stamps]
  /\ built = NotBuilt
  /\ clock \in 1..Len(Instants)
  /\ made = << >>
  /\ reqs = << >>

\* the call parseTimestamp(ts), lines 388-410 and 859-880; now is what
\* time.Now() returns if the call reads the clock
ParseStamp ==
  /\ built.stage = "none"
  /\ \E now \in clock..Len(Instants) :
     \E res \in { IF version = 1 THEN parseTimestamp(input.ts, Instants[now])
                                 ELSE parseTimestamp2(input.ts, Instants[now]) } :
       /\ built' = [stage |-> "stamp", now |-> now, res |-> res]
       /\ clock' = IF res.read THEN now ELSE clock
  /\ UNCHANGED <<version, running, tasks, emitted, events, ncalls, lastCall,
                 dir, inodes, fileOps, faults, input, made, callers>>

\* parseTimestamp of either copy, on every text and at every instant
StampSpec == StampInit /\ [][ParseStamp]_vars

\* -------------------------------------------------------------------- Next
Next ==
  \/ Start
  \/ Stop
  \/ \E t \in TaskIds : LoopCheck(t)
  \/ \E t \in TaskIds : Tick(t)
  \/ \E t \in TaskIds : ReadPass(t)
  \/ \E p \in Paths, chunk \in Chunks : FileAppend(p, chunk)
  \/ \E p \in Paths : FileTruncate(p)
  \/ \E p \in Paths : FileRemove(p)
  \/ \E p \in Paths : FileCreate(p)

\* the first copy of collector.go
Spec == Init /\ [][Next]_vars

\* the second copy of collector.go
Spec2 == Init2 /\ [][Next]_vars

InitBoth == Boot /\ Idle /\ version \in {1, 2}

\* either copy
SpecBoth == InitBoth /\ [][Next]_vars

RotateNext ==
  \/ Start
  \/ Stop
  \/ \E t \in TaskIds : LoopCheck(t)
  \/ \E t \in TaskIds : Tick(t)
  \/ \E t \in TaskIds : ReadPass(t)
  \/ \E p \in Paths, chunk \in Chunks : FileAppend(p, chunk)
  \/ \E p \in Paths, chunk \in Chunks : FileRewrite(p, chunk)

\* the first copy of collector.go on files that grow and are truncated and
\* written again between two polls
RotateSpec == Init /\ [][RotateNext]_vars

\* New() in a system whose first log file already holds a line: every watched
\* file is present, the others are empty
LoadedInit ==
  /\ Idle
  /\ version = 1
  /\ running = FALSE
  /\ tasks = << >>
  /\ emitted = << >>
  /\ events = << >>
  /\ ncalls = 0
  /\ lastCall = [op |-> "none", err |-> ""]
  /\ dir = [p \in Paths |-> CHOOSE s \in SourceIds : sources[s].Path = p]
  /\ inodes = [i \in SourceIds |->
                 [data |-> IF i = 1 THEN <<"a", LF>> ELSE << >>, gen |-> 0]]
  /\ fileOps = 0
  /\ faults = 0
  /\ registry = sources
  /\ held = FALSE

\* the first copy of collector.go started on files that hold lines
LoadedSpec == LoadedInit /\ [][Next]_vars

\* ------------------------------------------------------------ GetSources

\* GetSources(), lines 442-445: `return lc.sources` gives the caller the slice
\* of the collector itself, not a copy.  held says a caller has it.
GetSources ==
  /\ EnvSteps < MaxEnvSteps
  /\ ncalls' = ncalls + 1
  /\ lastCall' = [op |-> "GetSources", err |-> ""]
  /\ held' = TRUE
  /\ UNCHANGED <<builder, registry, reqs, version, running, tasks, emitted, events,
                 dir, inodes, fileOps, faults>>

\* The caller assigns to element i of the slice GetSources() returned, and
\* lets go of it: the slice shares its array with lc.sources, so the element
\* of lc.sources changes.
CallerWrites(i) ==
  /\ held
  /\ i \in 1..Len(registry)
  /\ registry' = [registry EXCEPT ![i].Enabled = ~@]
  /\ held' = FALSE
  /\ UNCHANGED <<builder, reqs, version, running, tasks, emitted, events,
                 ncalls, lastCall, dir, inodes, fileOps, faults>>

RegistryNext ==
  \/ Start
  \/ Stop
  \/ \E t \in TaskIds : LoopCheck(t)
  \/ \E t \in TaskIds : Tick(t)
  \/ \E t \in TaskIds : ReadPass(t)
  \/ GetSources
  \/ \E i \in SourceIds : CallerWrites(i)

\* the collector of the first copy with the callers of GetSources()
RegistrySpec == Init /\ [][RegistryNext]_vars

\* ------------------------------------------------------------ the handlers
\* net/http serves every request in a goroutine of its own, so the handlers of
\* two requests interleave at every read and write of lc.running.  A request
\* is at "handler" (before the call of IsRunning()), at "call" (about to enter
\* Start() or Stop()), at "set" (in Start(), after the check of line 190) or
\* "done", with the message of its response.

\* a POST to /api/logs/start or /api/logs/stop arrives
Arrive(kind) ==
  /\ Len(reqs) < MaxRequests
  /\ reqs' = Append(reqs, [kind |-> kind, pc |-> "handler", message |-> ""])
  /\ UNCHANGED <<builder, registry, held, version, running, tasks, emitted, events,
                 ncalls, lastCall, dir, inodes, fileOps, faults>>

\* handlers that would call Start() or Stop() without a look at IsRunning()
MutHandlerCheck(r) ==
  /\ r \in 1..Len(reqs)
  /\ reqs[r].pc = "handler"
  /\ reqs' = [reqs EXCEPT ![r].pc = "call"]
  /\ UNCHANGED <<builder, registry, held, version, running, tasks, emitted, events,
                 ncalls, lastCall, dir, inodes, fileOps, faults>>

\* log_handler.go, lines 49-58 and 89-98: the handler's own look at
\* IsRunning(), and the response when there is nothing to do
HandlerCheck(r) ==
  /\ r \in 1..Len(reqs)
  /\ reqs[r].pc = "handler"
  /\ reqs' = [reqs EXCEPT ![r] =
       IF reqs[r].kind = "start"
         THEN IF running
                THEN [@ EXCEPT !.pc = "done",
                               !.message = "Log collector is already running"]
                ELSE [@ EXCEPT !.pc = "call"]
         ELSE IF ~running
                THEN [@ EXCEPT !.pc = "done",
                               !.message = "Log collector is already stopped"]
                ELSE [@ EXCEPT !.pc = "call"]]
  /\ UNCHANGED <<builder, registry, held, version, running, tasks, emitted, events,
                 ncalls, lastCall, dir, inodes, fileOps, faults>>

\* collector.go, lines 190-192, called from log_handler.go line 60: the check
\* of Start(), and lines 61-70 when it returns the error
StartCheck(r) ==
  /\ r \in 1..Len(reqs)
  /\ reqs[r].kind = "start"
  /\ reqs[r].pc = "call"
  /\ reqs' = [reqs EXCEPT ![r] =
       IF AlreadyRunning(running)
         THEN [@ EXCEPT !.pc = "done",
                        !.message = "Log collector could not be started"]
         ELSE [@ EXCEPT !.pc = "set"]]
  /\ UNCHANGED <<builder, registry, held, version, running, tasks, emitted, events,
                 ncalls, lastCall, dir, inodes, fileOps, faults>>

\* collector.go, lines 194-219: the rest of Start(), and the response of
\* log_handler.go lines 72-79
StartSet(r) ==
  /\ r \in 1..Len(reqs)
  /\ reqs[r].pc = "set"
  /\ running' = TRUE
  /\ events' = Append(events, StartEvent)
  /\ LET new == Spawn(registry)
     IN /\ tasks' = tasks \o [i \in 1..Len(new) |-> NewTask(new[i])]
        /\ emitted' = emitted \o [i \in 1..Len(new) |-> << >>]
  /\ reqs' = [reqs EXCEPT ![r].pc = "done",
                          ![r].message = "Log collector started successfully"]
  /\ UNCHANGED <<builder, registry, held, version, ncalls, lastCall, dir, inodes,
                 fileOps, faults>>

\* log_handler.go, lines 100-109: Stop() (collector.go, lines 223-229) and the
\* response
StopCall(r) ==
  /\ r \in 1..Len(reqs)
  /\ reqs[r].kind = "stop"
  /\ reqs[r].pc = "call"
  /\ running' = FALSE
  /\ events' = Append(events, StopEvent)
  /\ reqs' = [reqs EXCEPT ![r].pc = "done",
                          ![r].message = "Log collector stopped successfully"]
  /\ UNCHANGED <<builder, registry, held, version, tasks, emitted, ncalls, lastCall,
                 dir, inodes, fileOps, faults>>

HandlerNext ==
  \/ \E kind \in {"start", "stop"} : Arrive(kind)
  \/ \E r \in 1..MaxRequests : HandlerCheck(r)
  \/ \E r \in 1..MaxRequests : StartCheck(r)
  \/ \E r \in 1..MaxRequests : StartSet(r)
  \/ \E r \in 1..MaxRequests : StopCall(r)
  \/ \E t \in TaskIds : LoopCheck(t)

\* the collector of the first copy behind its HTTP handlers, with the
\* goroutines it starts up to their wait for the ticker
HandlerSpec == Init /\ [][HandlerNext]_vars

\* log_handler.go, lines 50-54, 62-66, 72-76, 90-94 and 102-106: the "success"
\* and "running" fields the handlers send with each message
Response(message) ==
  CASE message = "Log collector is already running"   -> [success |-> FALSE, running |-> TRUE]
    [] message = "Log collector could not be started"  -> [success |-> FALSE, running |-> FALSE]
    [] message = "Log collector started successfully"  -> [success |-> TRUE,  running |-> TRUE]
    [] message = "Log collector is already stopped"    -> [success |-> FALSE, running |-> FALSE]
    [] message = "Log collector stopped successfully"  -> [success |-> TRUE,  running |-> FALSE]

\* a client that sends a request when the response to the one before has come
ArriveSerial(kind) ==
  /\ \A r \in 1..Len(reqs) : reqs[r].pc = "done"
  /\ Arrive(kind)

SerialNext ==
  \/ \E kind \in {"start", "stop"} : ArriveSerial(kind)
  \/ \E r \in 1..MaxRequests : HandlerCheck(r)
  \/ \E r \in 1..MaxRequests : StartCheck(r)
  \/ \E r \in 1..MaxRequests : StartSet(r)
  \/ \E r \in 1..MaxRequests : StopCall(r)
  \/ \E t \in TaskIds : LoopCheck(t)
  \/ \E t \in TaskIds : Tick(t)
  \/ \E t \in TaskIds : ReadPass(t)

\* the collector of the first copy behind its HTTP handlers, requests taken one
\* at a time, with the goroutines it starts
SerialSpec == Init /\ [][SerialNext]_vars

\* The Go scheduler runs every runnable goroutine and the ticker of a goroutine
\* keeps firing: no step of a started goroutine stays enabled forever untaken.
\* Start() succeeds at most every other call and starts one goroutine per
\* enabled source.
MaxTasks == ((MaxEnvSteps + 1) \div 2) * Len(Spawn(sources))

Fairness ==
  \A t \in 1..MaxTasks :
    WF_vars(LoopCheck(t)) /\ WF_vars(Tick(t)) /\ WF_vars(ReadPass(t))

FairSpec == Init /\ [][Next]_vars /\ Fairness

\* ------------------------------------------------------------- properties

Live(t) == tasks[t].pc # "stopped"

LiveTasks(name) == { t \in TaskIds : Live(t) /\ tasks[t].config.Name = name }

AllStopped == \A t \in TaskIds : ~Live(t)

\* the step is one of goroutine t
Moves(t) == tasks'[t] # tasks[t]

\* the byte after the last byte of a record's line
End(r) == r.off + Len(r.log.RawLog)

\* C1: while a file only grows (it is never truncated), the records one
\* goroutine emits from it come from pairwise disjoint stretches of the file:
\* a later cycle emits only what was appended, never a line emitted before.
C1_NoReEmission ==
  \A t \in TaskIds : \A i, j \in 1..Len(emitted[t]) :
    LET a == emitted[t][i]
        b == emitted[t][j]
    IN (i # j /\ a.ino = b.ino /\ inodes[a.ino].gen = 0)
         => (End(a) <= b.off \/ End(b) <= a.off)

\* two cycles of one goroutine on a file that only grew: the last read pass
\* began past a record of an earlier pass and emitted a record of its own
C1_Witness ==
  \E t \in TaskIds :
    /\ tasks[t].outcome = "read"
    /\ tasks[t].from > 0
    /\ Len(emitted[t]) >= 2
    /\ LET a == emitted[t][Len(emitted[t]) - 1]
           b == emitted[t][Len(emitted[t])]
       IN /\ a.ino = b.ino
          /\ inodes[a.ino].gen = 0
          /\ a.off < tasks[t].from
          /\ b.off >= tasks[t].from

\* C2: when the cycle finds the file smaller than lastPosition it sets
\* lastPosition to 0 before the read, and the read pass of that cycle begins at
\* offset 0.
C2_RotationReset ==
  [][\A t \in TaskIds :
       /\ (tasks[t].pc = "wait" /\ tasks'[t].pc = "read"
             /\ Len(inodes[dir[tasks[t].config.Path]].data) < tasks[t].lastPosition)
            => (tasks'[t].lastPosition = 0 /\ tasks'[t].from = 0)
       /\ (tasks[t].pc = "read" /\ tasks[t].rotated /\ Moves(t))
            => tasks[t].from = 0]_vars

\* C3: never more than one live goroutine for a source, and exactly one for
\* every enabled source while the collector is running.
C3_OneTaskPerSource ==
  \A s \in SourceIds :
    /\ Cardinality(LiveTasks(sources[s].Name)) <= 1
    /\ (running /\ sources[s].Enabled) => Cardinality(LiveTasks(sources[s].Name)) = 1

\* C4: Start() on a running collector returns an error and changes nothing:
\* not the flag, not the goroutines, not what they emitted, and no event.
C4_DoubleStart ==
  [][(ncalls' # ncalls /\ lastCall'.op = "Start" /\ running)
       => (lastCall'.err # "" /\ UNCHANGED <<running, tasks, emitted, events>>)]_vars

\* Start() was refused while goroutines of an earlier Start() were there
C4_Witness ==
  /\ lastCall.op = "Start"
  /\ lastCall.err # ""
  /\ running
  /\ Len(tasks) > 0

\* C5: Stop() on a stopped collector changes neither the flag nor the
\* goroutines nor the events written.
C5_StopIsNoOp ==
  [][(ncalls' # ncalls /\ lastCall'.op = "Stop" /\ ~running)
       => UNCHANGED <<running, tasks, events>>]_vars

\* C6: once Stop() was called, unless Start() is called again every goroutine
\* reaches "stopped"; a goroutine stops only at the top of its loop, and the
\* next step of one that is in a read pass is the end of that pass, back at the
\* top of the loop.
C6_CooperativeShutdown ==
  /\ (~running /\ lastCall.op = "Stop") ~> (running \/ AllStopped)
  /\ [][\A t \in TaskIds :
          /\ (Live(t) /\ tasks'[t].pc = "stopped") => tasks[t].pc = "loop"
          /\ (tasks[t].pc = "read" /\ Moves(t))
               => (tasks'[t].pc = "loop" /\ tasks'[t].outcome \in {"read", "readfail"})]_vars

\* after Stop() every goroutine has stopped, one of them after a read pass
C6_Witness ==
  /\ ~running
  /\ lastCall.op = "Stop"
  /\ TaskIds # {}
  /\ AllStopped
  /\ \E t \in TaskIds : tasks[t].outcome = "read"

\* C7: the records one goroutine emits from one file (between two truncations)
\* are emitted in the order of their lines in the file.
C7_FileOrder ==
  \A t \in TaskIds : \A i, j \in 1..Len(emitted[t]) :
    LET a == emitted[t][i]
        b == emitted[t][j]
    IN (i < j /\ a.ino = b.ino /\ a.gen = b.gen) => a.off < b.off

\* a goroutine has emitted two records of one file
C7_Witness ==
  \E t \in TaskIds : \E i, j \in 1..Len(emitted[t]) :
    /\ i < j
    /\ emitted[t][i].ino = emitted[t][j].ino
    /\ emitted[t][i].gen = emitted[t][j].gen
    /\ emitted[t][i].off < emitted[t][j].off

\* C8: no goroutine is ever started for a disabled source and no record of a
\* disabled source is ever emitted.
C8_DisabledNeverTailed ==
  \A t \in TaskIds :
    /\ \A s \in SourceIds :
         sources[s].Name = tasks[t].config.Name => sources[s].Enabled
    /\ \A i \in 1..Len(emitted[t]) : \A s \in SourceIds :
         sources[s].Name = emitted[t][i].log.Name => sources[s].Enabled

\* the collector was started again after a Stop(), the file of a disabled
\* source has a line in it, and no goroutine reads it
C8_Witness ==
  /\ running
  /\ \E i \in 1..Len(events) : events[i] = StopEvent
  /\ \E t \in TaskIds : tasks[t].pc = "wait"
  /\ \E s \in SourceIds :
       /\ ~sources[s].Enabled
       /\ dir[sources[s].Path] # NoFile
       /\ inodes[dir[sources[s].Path]].data # << >>

\* C9: a tick that finds no file at the path writes no event, emits no record
\* and leaves the goroutine at the top of its loop.
C9_MissingPathSkips ==
  [][\A t \in TaskIds :
       (tasks[t].pc = "wait" /\ dir[tasks[t].config.Path] = NoFile /\ Moves(t))
         => /\ events' = events
            /\ emitted' = emitted
            /\ tasks'[t].pc = "loop"
            /\ tasks'[t].lastPosition = tasks[t].lastPosition]_vars

\* a goroutine skipped a cycle for a missing file and waits for the next tick
C9_Witness ==
  \E t \in TaskIds :
    /\ tasks[t].outcome = "missing"
    /\ tasks[t].pc = "wait"
    /\ dir[tasks[t].config.Path] = NoFile

\* C10: a failed open writes exactly one error event, emits nothing and leaves
\* the goroutine at the top of its loop; a goroutine stops only when the
\* running flag is off.
C10_OpenFailureRetried ==
  [][\A t \in TaskIds :
       /\ (tasks[t].pc = "wait" /\ Moves(t) /\ tasks'[t].outcome = "openfail")
            => /\ events' = Append(events, ErrorEvent(tasks[t].config))
               /\ emitted' = emitted
               /\ tasks'[t].pc = "loop"
       /\ (Live(t) /\ tasks'[t].pc = "stopped") => ~running]_vars

\* after a failed open the goroutine passed its loop condition again
C10_Witness ==
  \E t \in TaskIds :
    /\ tasks[t].outcome = "openfail"
    /\ tasks[t].pc = "wait"
    /\ running
    /\ \E i \in 1..Len(events) : events[i] = ErrorEvent(tasks[t].config)

\* the records goroutine t hands over in this step
Added(t) == SubSeq(emitted'[t], Len(emitted[t]) + 1, Len(emitted'[t]))

\* the lines among toks that are not blank
RECURSIVE NonBlank(_)
NonBlank(toks) ==
  IF toks = << >> THEN << >>
  ELSE (IF IsBlank(toks[1].text) THEN << >> ELSE << toks[1] >>) \o NonBlank(Tail(toks))

\* C11: a read pass in which a read fails still hands over, in that pass, every
\* non-blank line the file holds from the offset the pass began at to the end
\* of the file.
C11_ReadErrorContinues ==
  [][\A t \in TaskIds :
       (tasks[t].pc = "read" /\ Moves(t) /\ tasks'[t].outcome = "readfail")
         => LET data == inodes[tasks[t].fd].data
                toks == NonBlank(ScanTokens(data, tasks[t].from, Len(data)))
            IN \A k \in 1..Len(toks) : \E i \in 1..Len(Added(t)) :
                 /\ Added(t)[i].off = toks[k].off
                 /\ Added(t)[i].log.RawLog = toks[k].text]_vars

\* C12: a goroutine is never blocked (the step it is at can always be taken,
\* whatever state the goroutines of other sources are in), a step of one
\* goroutine changes neither the state nor the records of another, and a
\* goroutine stops only at the top of its loop with the running flag off.
C12_SourceIsolation ==
  /\ [](\A u \in TaskIds :
          /\ tasks[u].pc = "loop" => ENABLED LoopCheck(u)
          /\ tasks[u].pc = "wait" => ENABLED Tick(u)
          /\ tasks[u].pc = "read" => ENABLED ReadPass(u))
  /\ [][\A t \in TaskIds :
          /\ Moves(t) => \A u \in TaskIds \ {t} :
                           tasks'[u] = tasks[u] /\ emitted'[u] = emitted[u]
          /\ (Live(t) /\ tasks'[t].pc = "stopped")
               => (~running /\ tasks[t].pc = "loop")]_vars

\* the file of one source is missing and its goroutine has skipped a cycle for
\* it, while the goroutine of another source has read a record and goes on
C12_Witness ==
  \E t, u \in TaskIds :
    /\ tasks[t].config.Name # tasks[u].config.Name
    /\ tasks[t].outcome = "missing"
    /\ dir[tasks[t].config.Path] = NoFile
    /\ Live(t)
    /\ tasks[u].outcome = "read"
    /\ emitted[u] # << >>
    /\ tasks[u].pc = "wait"

\* C13: the records a read pass hands over are, in order, the non-blank lines
\* among the lines it read, one record for each, and no record has a blank (or
\* empty) RawLog.
C13_BlankLinesDropped ==
  /\ [](\A t \in TaskIds : \A i \in 1..Len(emitted[t]) :
          ~IsBlank(emitted[t][i].log.RawLog))
  /\ [][\A t \in TaskIds :
          (tasks[t].pc = "read" /\ Moves(t))
            => LET data == inodes[tasks[t].fd].data
                   from == tasks[t].from
               IN \E r \in from..(IF Len(data) > from THEN Len(data) ELSE from) :
                    [i \in 1..Len(Added(t)) |->
                       [off |-> Added(t)[i].off, text |-> Added(t)[i].log.RawLog]]
                      = NonBlank(ScanTokens(data, from, r))]_vars

\* a read pass from offset 0 to the end of a file that holds a line of white
\* space and a line that is not blank; it handed over the second only
C13_Witness ==
  \E t \in TaskIds :
    /\ tasks[t].outcome = "read"
    /\ tasks[t].from = 0
    /\ dir[tasks[t].config.Path] # NoFile
    /\ LET data == inodes[dir[tasks[t].config.Path]].data
           toks == ScanTokens(data, 0, Len(data))
       IN /\ tasks[t].lastPosition = Len(data)
          /\ \E k \in 1..Len(toks) : toks[k].text # << >> /\ IsBlank(toks[k].text)
          /\ \E k \in 1..Len(toks) : ~IsBlank(toks[k].text)
          /\ [i \in 1..Len(emitted[t]) |-> emitted[t][i].off]
               = [k \in 1..Len(NonBlank(toks)) |-> NonBlank(toks)[k].off]

\* C14: for every line that is not blank and every configuration, the loop
\* body builds a record, whose RawLog is the line and whose Message is not
\* empty.
C14_BuildNeverFails ==
  (built.stage # "none" /\ ~IsBlank(input.line))
    => /\ built.log # NoLog
       /\ built.log.RawLog = input.line
       /\ built.log.Message # << >>

\* the values of LogLevel
Levels == {"debug", "info", "warn", "error", "fatal", "unknown"}

\* C15: the Level of every record built is one of the six values of LogLevel,
\* never the empty zero value.
C15_SeveritySet ==
  (built.stage # "none" /\ built.log # NoLog) => built.log.Level \in Levels

\* C16: for a configuration whose kind has no parser, the record has the Level
\* detectLogLevel gives for the line, the line as its Message, and no
\* ParsedData.
C16_NoPatternIsRaw ==
  (built.stage # "none" /\ built.log # NoLog
     /\ input.config.Source \notin DOMAIN parsers)
    => /\ built.log.Level = (IF version = 1 THEN detectLogLevel(input.line)
                                            ELSE detectLogLevel2(input.line))
       /\ built.log.Message = input.line
       /\ DOMAIN built.log.ParsedData = {}

\* the precedence the severity inference is said to apply
FirstKeyword(message) ==
  LET has(w) == Contains(ToLower(message), w)
  IN IF has(<<"f", "a", "t", "a", "l">>) \/ has(<<"p", "a", "n", "i", "c">>) THEN "fatal"
     ELSE IF has(<<"e", "r", "r", "o", "r">>) \/ has(<<"e", "r", "r">>) THEN "error"
     ELSE IF has(<<"w", "a", "r", "n">>) \/ has(<<"w", "a", "r", "n", "i", "n", "g">>) THEN "warn"
     ELSE IF has(<<"d", "e", "b", "u", "g">>) THEN "debug"
     ELSE IF has(<<"i", "n", "f", "o">>) THEN "info"
     ELSE "unknown"

\* C17: where the Level of a record is inferred from its Message (a record
\* with a captured message, and in the first copy a raw log), it is the level
\* of the first keyword found in the lower-cased Message, in the order
\* fatal/panic, error/err, warn/warning, debug, info, and unknown when there is
\* none; a Message with both "error" and "fatal" has the Level fatal.
C17_SeverityPrecedence ==
  (built.stage # "none" /\ built.log # NoLog
     /\ \/ "message" \in DOMAIN built.log.ParsedData
        \/ (version = 1 /\ DOMAIN built.log.ParsedData = {}))
    => built.log.Level = FirstKeyword(built.log.Message)

ExampleLine ==
  <<"J", "u", "n", " ", "1", "5", " ", "0", "1", ":", "5", "7", ":", "4",
  "8", " ", "s", "e", "r", "v", "e", "r", "0", "1", " ", "s", "y", "s", "t",
  "e", "m", "d", "[", "1", "]", ":", " ", "S", "t", "a", "r", "t", "e", "d",
  " ", "n", "g", "i", "n", "x", ".", "s", "e", "r", "v", "i", "c", "e">>

\* text is a name followed by a process id in brackets
EndsWithPid(text) ==
  \E j \in 2..(Len(text) - 2) :
    /\ text[j] = "["
    /\ text[Len(text)] = "]"
    /\ \A i \in (j + 1)..(Len(text) - 1) : text[i] \in {Digits[d] : d \in 1..Len(Digits)}

\* C18: the syslog line of the example is parsed into timestamp, host, service
\* "systemd", pid "1" and message, with the Level info; and the service of no
\* parsed syslog line ends with a process id in brackets.
C18_SyslogExample ==
  /\ (built.stage # "none" /\ input.line = ExampleLine
        /\ input.config.Source = "syslog")
       => /\ built.log # NoLog
          /\ DOMAIN built.log.ParsedData
               = {"timestamp", "host", "service", "pid", "message"}
          /\ built.log.ParsedData["timestamp"] =
               <<"J", "u", "n", " ", "1", "5", " ", "0", "1", ":", "5", "7", ":", "4", "8">>
          /\ built.log.ParsedData["host"] = <<"s", "e", "r", "v", "e", "r", "0", "1">>
          /\ built.log.ParsedData["service"] = <<"s", "y", "s", "t", "e", "m", "d">>
          /\ built.log.ParsedData["pid"] = <<"1">>
          /\ built.log.ParsedData["message"] =
               <<"S", "t", "a", "r", "t", "e", "d", " ", "n", "g", "i", "n",
               "x", ".", "s", "e", "r", "v", "i", "c", "e">>
          /\ built.log.Level = "info"
  /\ (built.stage # "none" /\ built.log # NoLog /\ input.config.Source = "syslog"
        /\ "service" \in DOMAIN built.log.ParsedData)
       => ~EndsWithPid(built.log.ParsedData["service"])

\* C19: once processSystemLog has printed a record, the audit log holds
\* exactly one critical_system_log event when the record's Level is error or
\* fatal, and none otherwise; the event carries the record.
C19_CriticalEvent ==
  (built.stage = "done" /\ built.printed)
    => LET critical == { i \in 1..Len(events) :
                           events[i].EventType = "critical_system_log" }
       IN /\ Cardinality(critical)
               = (IF built.log.Level \in {"error", "fatal"} THEN 1 ELSE 0)
          /\ \A i \in critical : events[i] = CriticalEvent(built.log)

\* C20: when json.Marshal refuses a record of a read pass, the pass writes one
\* error event for it and nothing else, prints every other record it hands
\* over, hands over every non-blank line up to the offset it read to (the
\* lines after the refused one too), saves that offset, which is past the
\* refused line, and leaves the goroutine at the top of its loop.
C20_SerializationFailure ==
  [][\A t \in TaskIds :
       (tasks[t].pc = "read" /\ Moves(t))
         => \A i \in 1..Len(Added(t)) :
              ~Added(t)[i].printed
                => /\ events' = Append(events, MarshalError(Added(t)[i].log))
                   /\ \A j \in 1..Len(Added(t)) : j # i => Added(t)[j].printed
                   /\ [k \in 1..Len(Added(t)) |-> Added(t)[k].off]
                        = [k \in 1..Len(NonBlank(ScanTokens(inodes[tasks[t].fd].data,
                                          tasks[t].from, tasks'[t].lastPosition)))
                             |-> NonBlank(ScanTokens(inodes[tasks[t].fd].data,
                                          tasks[t].from, tasks'[t].lastPosition))[k].off]
                   /\ tasks'[t].lastPosition >= End(Added(t)[i])
                   /\ tasks'[t].pc = "loop"]_vars

\* the last read pass of a goroutine handed over two records: json.Marshal
\* refused the first, which was reported, and the second was printed
C20_Witness ==
  \E t \in TaskIds : \E i \in 1..(Len(emitted[t]) - 1) :
    /\ tasks[t].outcome = "read"
    /\ emitted[t][i].off >= tasks[t].from
    /\ ~emitted[t][i].printed
    /\ emitted[t][i + 1].printed
    /\ emitted[t][i + 1].ino = emitted[t][i].ino
    /\ emitted[t][i + 1].off > emitted[t][i].off
    /\ tasks[t].lastPosition >= End(emitted[t][i + 1])
    /\ events[Len(events)] = MarshalError(emitted[t][i].log)

\* the calls of parseLogLine made so far that returned a record: the line, the
\* source, what time.Now() returned, and the record
Calls ==
  LET all == made \o (IF built.stage = "none" THEN << >>
                      ELSE << [line |-> input.line, config |-> input.config,
                               now |-> built.now, log |-> built.log] >>)
  IN SelectSeq(all, LAMBDA c : c.log # NoLog)

\* C21: any two records built, of one source or of two, have different IDs,
\* also when the clock did not move between them.
C21_UniqueIds ==
  \A i, j \in 1..Len(Calls) : i # j => Calls[i].log.ID # Calls[j].log.ID

C23_EventTimeDefault ==
  (built.stage # "none" /\ built.log # NoLog) =>
    LET noParser == input.config.Source \notin DOMAIN parsers
        found    == FindStringSubmatch(parsers[input.config.Source].Pattern, input.line)
        noMatch  == ~noParser /\ found.nil
        matched  == ~noParser /\ ~found.nil
        noField  == matched /\ "timestamp" \notin DOMAIN built.log.ParsedData
        failed   == /\ matched
                    /\ "timestamp" \in DOMAIN built.log.ParsedData
                    /\ parseTimestamp(built.log.ParsedData["timestamp"], ZeroTime).err
    IN /\ (noParser \/ noMatch \/ noField \/ failed)
            => built.log.Timestamp = built.log.CollectedAt
       /\ failed
            => \A f \in DOMAIN built.log \ {"ID", "Timestamp", "CollectedAt"} :
                 built.log[f] = parseLogLine(input.line, input.config)[f]

\* C24: for a line its pattern matches, the keys of ParsedData are the fields
\* whose group took part in the match, and each holds the text of its group.
C24_FieldsOfMatch ==
  (/\ built.stage # "none"
   /\ built.log # NoLog
   /\ input.config.Source \in DOMAIN parsers
   /\ ~FindStringSubmatch(parsers[input.config.Source].Pattern, input.line).nil) =>
    LET parser == parsers[input.config.Source]
        caps   == FindFrom(parser.Pattern, input.line, 0)[1]
        took   == { i \in 1..Len(parser.Fields) :
                      i <= parser.Pattern.groups /\ caps[i].lo >= 0 }
    IN /\ DOMAIN built.log.ParsedData = { parser.Fields[i] : i \in took }
       /\ \A i \in took :
            built.log.ParsedData[parser.Fields[i]]
              = SubSeq(input.line, caps[i].lo + 1, caps[i].hi)

\* C25: the list of sources stays as New() made it, through Start(), Stop(),
\* the poll cycles and what a caller does with the slice GetSources()
\* returned; every goroutine is one of a source of that list.
C25_RegistryReadOnly ==
  /\ registry = sources
  /\ \A t \in TaskIds : tasks[t].config \in { sources[i] : i \in SourceIds }

\* C26: of two calls of Start() that run at the same time on a stopped
\* collector one starts the goroutines and writes the start event, the other
\* returns the error: no two start events are written without a stop event
\* between them.
C26_OneStart ==
  \A i, j \in 1..Len(events) :
    (i < j /\ events[i] = StartEvent /\ events[j] = StartEvent)
      => \E k \in (i + 1)..(j - 1) : events[k] = StopEvent

\* C27: a goroutine that waits for its ticker when Stop() has returned starts
\* no further cycle: its next step takes it to the end of collectFromSource,
\* without opening the file and without a record.
C27_NoCycleAfterStop ==
  [][\A t \in TaskIds :
       (tasks[t].pc = "wait" /\ ~running /\ Moves(t))
         => (tasks'[t].pc = "stopped" /\ tasks'[t].fd = NoFile /\ emitted' = emitted)]_vars

\* C28: a read pass hands over complete lines only: every record of a file
\* that was not truncated since is the text of a line whose end is in the
\* file, so that bytes appended later never make a record of their own out of
\* the rest of that line.
C28_CompleteLines ==
  \A t \in TaskIds : \A i \in 1..Len(emitted[t]) :
    LET r    == emitted[t][i]
        data == inodes[r.ino].data
    IN inodes[r.ino].gen = r.gen
         => (End(r) < Len(data) /\ data[End(r) + 1] \in {CR, LF})

\* C29: after a truncation every non-blank line of the new content is emitted
\* exactly once, whatever the size of the file at the next poll: when a read
\* pass on a truncated file ends without a failed call, every complete
\* non-blank line that lies before the saved position has exactly one record.
C29_NewContentEmitted ==
  [][\A t \in TaskIds :
       (tasks[t].pc = "read" /\ Moves(t) /\ faults' = 0
          /\ inodes[tasks[t].fd].gen > 0)
         => LET f     == tasks[t].fd
                data  == inodes[f].data
                lines == ScanTokens(data, 0, Len(data))
            IN \A k \in 1..Len(lines) :
                 (/\ ~IsBlank(lines[k].text)
                  /\ lines[k].off + Len(lines[k].text) < tasks'[t].lastPosition)
                   => Cardinality({ i \in 1..Len(emitted'[t]) :
                                      /\ emitted'[t][i].ino = f
                                      /\ emitted'[t][i].gen = inodes[f].gen
                                      /\ emitted'[t][i].off = lines[k].off }) = 1]_vars

\* C30: a completed read pass leaves lastPosition at the offset the pass
\* reached: past every record of the pass, between 0 and the size the file has
\* at the time of the read, and not before the position of the cycle before
\* unless the cycle found the file rotated.
C30_OffsetWithinFile ==
  [][\A t \in TaskIds :
       (tasks[t].pc = "read" /\ Moves(t))
         => /\ 0 <= tasks'[t].lastPosition
            /\ tasks'[t].lastPosition <= Len(inodes[tasks[t].fd].data)
            /\ \A i \in (Len(emitted[t]) + 1)..Len(emitted'[t]) :
                 End(emitted'[t][i]) <= tasks'[t].lastPosition
            /\ ~tasks[t].rotated
                 => tasks'[t].lastPosition >= tasks[t].lastPosition]_vars

\* C31: lastPosition of a goroutine changes only in a step of that goroutine
\* and only in a cycle that reads: a cycle that is skipped (no file at the
\* path, or os.Open, file.Stat or file.Seek fails) leaves it as it was, and so
\* do Start(), Stop() and the steps of the other goroutines.
C31_OffsetFrame ==
  [][\A t \in TaskIds :
       /\ ~Moves(t) => tasks'[t].lastPosition = tasks[t].lastPosition
       /\ (tasks[t].pc = "wait" /\ tasks'[t].pc = "loop")
            => /\ tasks'[t].outcome \in {"missing", "openfail", "statfail", "seekfail"}
               /\ tasks'[t].lastPosition = tasks[t].lastPosition
       /\ tasks[t].pc = "loop" /\ Moves(t)
            => tasks'[t].lastPosition = tasks[t].lastPosition]_vars

RECURSIVE Count(_, _)
Count(e, evs) ==
  IF evs = << >> THEN 0 ELSE (IF evs[1] = e THEN 1 ELSE 0) + Count(e, Tail(evs))

\* C33: a Start() that succeeds records exactly one log_collector_start, as the
\* last event so far, and the goroutines it starts have produced nothing yet,
\* so whatever they record comes after it; a Start() that fails records no
\* event; a Stop() records exactly one log_collector_stop and leaves the
\* running flag off; no other step records either event.
C33_StartStopEvents ==
  [][/\ (ncalls' = ncalls + 1 /\ lastCall'.op = "Start" /\ lastCall'.err = "")
          => /\ events' = Append(events, StartEvent)
             /\ running'
             /\ \A t \in TaskIds' \ TaskIds :
                  emitted'[t] = << >> /\ tasks'[t].outcome = "none"
     /\ (ncalls' = ncalls + 1 /\ lastCall'.op = "Start" /\ lastCall'.err # "")
          => events' = events /\ tasks' = tasks
     /\ (ncalls' = ncalls + 1 /\ lastCall'.op = "Stop")
          => events' = Append(events, StopEvent) /\ ~running'
     /\ ncalls' = ncalls
          => /\ Count(StartEvent, events') = Count(StartEvent, events)
             /\ Count(StopEvent, events') = Count(StopEvent, events)
             /\ TaskIds' = TaskIds]_vars

\* Start() succeeded, a goroutine it started recorded an error, and Stop() was
\* called: the three events are in that order and the flag is off
C33_Witness ==
  /\ ~running
  /\ Count(StartEvent, events) = 1
  /\ Count(StopEvent, events) = 1
  /\ \E i, j, k \in 1..Len(events) :
       /\ i < j /\ j < k
       /\ events[i] = StartEvent
       /\ events[j].EventType = "error"
       /\ events[k] = StopEvent

\* C34: a goroutine has a file open only between the os.Open of a cycle and the
\* end of that cycle's read pass: at the top of the loop, while it waits for
\* the tick and after it has stopped it holds no file, and every step that
\* ends a cycle (a skipped one or a read pass) leaves it with none.
C34_FileClosed ==
  /\ [](\A t \in TaskIds :
          /\ tasks[t].pc \in {"loop", "wait", "stopped"} => tasks[t].fd = NoFile
          /\ tasks[t].pc = "read" => tasks[t].fd \in DOMAIN inodes)
  /\ [][\A t \in TaskIds :
          (Moves(t) /\ tasks'[t].pc = "loop") => tasks'[t].fd = NoFile]_vars

\* one goroutine read a line in a read pass and ended a later cycle on a failed
\* file.Stat, another ended a cycle on a failed file.Seek; neither holds a file
C34_Witness ==
  \E t, u \in TaskIds :
    /\ emitted[t] # << >>
    /\ tasks[t].outcome = "statfail" /\ tasks[t].pc = "loop" /\ tasks[t].fd = NoFile
    /\ tasks[u].outcome = "seekfail" /\ tasks[u].pc = "loop" /\ tasks[u].fd = NoFile

\* C35: with the requests taken one at a time, a start request that finds the
\* collector running and a stop request that finds it stopped are answered
\* success=false from the handler, without a call of Start() or Stop(): the
\* running flag, the goroutines and the events stay as they are; and every
\* response reports as "running" the value IsRunning() has when it is sent.
C35_HandlersSerial ==
  [][\A r \in 1..Len(reqs) :
       /\ (reqs[r].pc = "handler" /\ reqs'[r] # reqs[r]
              /\ running = (reqs[r].kind = "start"))
            => /\ reqs'[r].pc = "done"
               /\ ~Response(reqs'[r].message).success
               /\ running' = running /\ tasks' = tasks /\ events' = events
       /\ (reqs[r].pc # "done" /\ reqs'[r].pc = "done")
            => Response(reqs'[r].message).running = running']_vars

\* a start request was answered success=true and the start request after it
\* was refused: one start event, the collector running
C35_Witness ==
  /\ Len(reqs) = 2
  /\ reqs[1].kind = "start" /\ reqs[1].pc = "done" /\ Response(reqs[1].message).success
  /\ reqs[2].kind = "start" /\ reqs[2].pc = "done"
  /\ reqs[2].message = "Log collector is already running"
  /\ running
  /\ Count(StartEvent, events) = 1

\* the number of parenthesized groups among the items of a pattern
RECURSIVE NumSubexp(_)
NumSubexp(items) ==
  IF items = << >> THEN 0
  ELSE (IF items[1].k = "open" THEN 1 ELSE 0) + NumSubexp(items[1].sub)
         + NumSubexp(Tail(items))

\* C36: each of the three parsers has as many field names as its pattern has
\* capture groups, all different; and in the record built from a line the
\* pattern matches, ParsedData has exactly the field names as keys, field
\* number i holding what group number i captured.
C36_FieldsMatchGroups ==
  /\ \A k \in DOMAIN parsers :
       /\ Len(parsers[k].Fields) = NumSubexp(parsers[k].Pattern.items)
       /\ Len(parsers[k].Fields) = parsers[k].Pattern.groups
       /\ \A i, j \in 1..Len(parsers[k].Fields) :
            parsers[k].Fields[i] = parsers[k].Fields[j] => i = j
  /\ (/\ built.stage # "none"
      /\ built.log # NoLog
      /\ input.config.Source \in DOMAIN parsers
      /\ ~FindStringSubmatch(parsers[input.config.Source].Pattern, input.line).nil) =>
       LET parser  == parsers[input.config.Source]
           matches == FindStringSubmatch(parser.Pattern, input.line).matches
       IN /\ Len(matches) = Len(parser.Fields) + 1
          /\ DOMAIN built.log.ParsedData
               = { parser.Fields[i] : i \in 1..Len(parser.Fields) }
          /\ \A i \in 1..Len(parser.Fields) :
               built.log.ParsedData[parser.Fields[i]] = matches[i + 1]

\* the record of a syslog line: five groups, five keys, the second field
\* holding the second group and the fourth, whose group took no part in the
\* match, the empty string
C36_Witness ==
  /\ built.stage # "none"
  /\ built.log # NoLog
  /\ input.config.Source = "syslog"
  /\ Cardinality(DOMAIN built.log.ParsedData) = 5
  /\ built.log.ParsedData["host"] = <<"s", "e", "r", "v", "e", "r", "0", "1">>
  /\ built.log.ParsedData["pid"] = << >>

\* the layout names a year
HasYear(layout) ==
  \E i \in 1..Len(layout) : layout[i].std \in {"stdLongYear", "stdYear"}

\* C37: parseTimestamp returns an error and the zero time when no format of
\* its list parses the text; otherwise it returns what the first format that
\* parses the text gives, as it is when that format names a year and moved
\* to the year of the clock when it does not.
C37_FirstFormatWins ==
  built.stage = "stamp" =>
    LET fs     == IF version = 1 THEN formats ELSE formats2
        parses == { k \in 1..Len(fs) : ~Parse(fs[k], input.ts).err }
        first  == CHOOSE k \in parses : \A j \in parses : k <= j
    IN IF parses = { }
         THEN built.res.err /\ built.res.t = ZeroTime
         ELSE /\ ~built.res.err
              /\ HasYear(fs[first]) => built.res.t = Parse(fs[first], input.ts).t
              /\ ~HasYear(fs[first])
                   => /\ built.res.t.year = Instants[built.now].year
                      /\ built.res.t = AddYears(Parse(fs[first], input.ts).t,
                                                Instants[built.now].year)
====
